---- MODULE Spec2Model ----
(***************************************************************************)
(* Deal Forensics: the similarity matcher and metrics extractor of         *)
(* rag/data_processor.py, the three analysis stages of agents/*.py and     *)
(* the run that main.py drives through them.                               *)
(*                                                                         *)
(* Conventions of the model                                                *)
(*  - a Python dict is a function from key strings to values; a key that   *)
(*    a dict does not have is a key outside DOMAIN (Get models dict.get);  *)
(*  - a Python str that the code searches is a sequence of one-character   *)
(*    strings, so that (kw in text) is a real substring search;            *)
(*  - a float produced by a division is an exact rational [num, den] in    *)
(*    lowest terms; a similarity score is counted in tenths (0.4 -> 4).    *)
(***************************************************************************)
EXTENDS Integers, Sequences, FiniteSets, TLC

VARIABLES
    op,     \* pure-function specifications: the function applied, "none" before
    arg,    \* pure-function specifications: the inputs drawn by Init
    ret,    \* pure-function specifications: what the function returned
    sample_data,                \* DataProcessor.sample_data: the loaded corpus
    collection,                 \* the records of the "deals_data" index collection
    pc,                         \* where the run of main() stands
    selected_deal_id,           \* main: the selectbox choice
    main_lost_deal,             \* main: lost_deal, the deal under analysis
    main_timeline_analysis,     \* main: timeline_analysis
    main_similar_won,           \* main: similar_won
    main_comparative_analysis,  \* main: comparative_analysis
    main_playbook,              \* main: playbook
    stage_path,                 \* per stage, the code path that built its result
    gens,                       \* per stage, what the generation call did
    calls                       \* the stage calls made so far, with their arguments

run_vars == <<sample_data, collection, pc, selected_deal_id, main_lost_deal,
              main_timeline_analysis, main_similar_won, main_comparative_analysis,
              main_playbook, stage_path, gens, calls>>
vars == <<op, arg, ret, sample_data, collection, pc, selected_deal_id,
          main_lost_deal, main_timeline_analysis, main_similar_won,
          main_comparative_analysis, main_playbook, stage_path, gens, calls>>

-----------------------------------------------------------------------------
(* Bounds of the model *)

MaxWon == 3        \* won deals in a corpus handed to the matcher
MaxN == 3          \* largest n asked of get_won_deals_for_comparison
MaxEvents == 3     \* events of a timeline handed to the metrics extractor
MaxDay == 3        \* largest day offset of those events
MaxTimeline == 2   \* events of a lost deal's timeline in a run of main()
MaxPipelineWon == 1  \* won deals of the corpus in a run of main()
MaxOverrun == 3      \* characters of a response text beyond the cut
MaxStoreWon == 2     \* won deals of a corpus handed to store_deals
MaxStoreCalls == 2   \* calls of store_deals in a row
MaxFallbackTimeline == 4   \* events of a deal given to the rule-based fallback

-----------------------------------------------------------------------------
(* Python building blocks *)

Has(d, k) == k \in DOMAIN d
Get(d, k, default) == IF k \in DOMAIN d THEN d[k] ELSE default
Put(d, k, v) == [x \in (DOMAIN d) \cup {k} |-> IF x = k THEN v ELSE d[x]]
EmptyDict == [x \in {} |-> 0]

Min2(a, b) == IF a <= b THEN a ELSE b
Max2(a, b) == IF a >= b THEN a ELSE b
Abs(a) == IF a < 0 THEN -a ELSE a
Range(s) == {s[i] : i \in DOMAIN s}

RECURSIVE GCD(_, _)
GCD(a, b) == IF b = 0 THEN a ELSE GCD(b, a % b)

\* a / b for b > 0, as Python's true division, kept exact
Rat(a, b) ==
    LET g == GCD(Abs(a), b)
    IN  [num |-> a \div g, den |-> b \div g]

RatZero == [num |-> 0, den |-> 1]
RatOfInt(a) == [num |-> a, den |-> 1]

RECURSIVE SumSeq(_)
SumSeq(s) == IF s = <<>> THEN 0 ELSE s[1] + SumSeq(Tail(s))

MaxSeq(s) == CHOOSE x \in Range(s) : \A y \in Range(s) : y <= x
MinSeq(s) == CHOOSE x \in Range(s) : \A y \in Range(s) : x <= y

SeqsUpTo(S, n) == UNION {[1..k -> S] : k \in 0..n}

-----------------------------------------------------------------------------
(* Text: str.lower() and the `in` substring test *)

UpperCase == <<"A", "B", "C", "D", "E", "F", "G", "H", "I", "J", "K", "L", "M",
               "N", "O", "P", "Q", "R", "S", "T", "U", "V", "W", "X", "Y", "Z">>
LowerCase == <<"a", "b", "c", "d", "e", "f", "g", "h", "i", "j", "k", "l", "m",
               "n", "o", "p", "q", "r", "s", "t", "u", "v", "w", "x", "y", "z">>

LowerChar(c) ==
    IF \E i \in DOMAIN UpperCase : UpperCase[i] = c
    THEN LowerCase[CHOOSE i \in DOMAIN UpperCase : UpperCase[i] = c]
    ELSE c

Lower(s) == [i \in DOMAIN s |-> LowerChar(s[i])]

Contains(s, sub) ==
    \E i \in 0..(Len(s) - Len(sub)) : SubSeq(s, i + 1, i + Len(sub)) = sub

\* the words the code searches for
Kw ==
    [proposal |-> <<"p", "r", "o", "p", "o", "s", "a", "l">>,
     demo |-> <<"d", "e", "m", "o">>,
     pricing |-> <<"p", "r", "i", "c", "i", "n", "g">>,
     competitor |-> <<"c", "o", "m", "p", "e", "t", "i", "t", "o", "r">>,
     budget |-> <<"b", "u", "d", "g", "e", "t">>,
     meeting |-> <<"m", "e", "e", "t", "i", "n", "g">>,
     delay |-> <<"d", "e", "l", "a", "y">>,
     ghost |-> <<"g", "h", "o", "s", "t">>,
     concern |-> <<"c", "o", "n", "c", "e", "r", "n">>,
     lost |-> <<"l", "o", "s", "t">>,
     no_response |-> <<"n", "o", " ", "r", "e", "s", "p", "o", "n", "s", "e">>,
     positive |-> <<"p", "o", "s", "i", "t", "i", "v", "e">>]

\* event labels and details of the deals
Txt ==
    [initial_contact |-> <<"I", "n", "i", "t", "i", "a", "l", " ", "C", "o",
         "n", "t", "a", "c", "t">>,
     positive_interest |-> <<"p", "o", "s", "i", "t", "i", "v", "e", " ",
         "i", "n", "t", "e", "r", "e", "s", "t">>,
     demo |-> <<"D", "e", "m", "o">>,
     competitor_budget |-> <<"c", "o", "m", "p", "e", "t", "i", "t", "o",
         "r", " ", "A", "B", "C", " ", "m", "e", "n", "t", "i", "o", "n",
         "e", "d", ",", " ", "b", "u", "d", "g", "e", "t", " ", "c", "o",
         "n", "c", "e", "r", "n">>,
     follow_up |-> <<"F", "o", "l", "l", "o", "w", "-", "u", "p">>,
     ghosted |-> <<"n", "o", " ", "r", "e", "s", "p", "o", "n", "s", "e",
         ",", " ", "g", "h", "o", "s", "t", "e", "d">>,
     call |-> <<"C", "a", "l", "l">>,
     pricing_delay |-> <<"p", "r", "i", "c", "i", "n", "g", " ", "d", "e",
         "l", "a", "y">>,
     ok |-> <<"o", "k">>]

Event(day, event, details) == [day |-> day, event |-> event, details |-> details]

-----------------------------------------------------------------------------
(* rag/data_processor.py: the similarity matcher *)

IndustryWeight == 4        \* score += 0.4
ValueWeight == 3           \* score += 0.3
CompetitorWeight == 3      \* score += 0.3
RatioThreshold == 5        \* ratio > 0.5
SimilarityThreshold == 3   \* similarity_score > 0.3
DefaultN == 2              \* n=2

\* deal1.get('industry') == deal2.get('industry'): None equals only None
IndustryEqual(deal1, deal2) ==
    IF Has(deal1, "industry") /\ Has(deal2, "industry")
    THEN deal1["industry"] = deal2["industry"]
    ELSE ~Has(deal1, "industry") /\ ~Has(deal2, "industry")

\* ratio = min(val1, val2) / max(val1, val2)
ValueRatioSwapped(val1, val2) == [num |-> val1, den |-> val2]
ValueRatio(val1, val2) == [num |-> Min2(val1, val2), den |-> Max2(val1, val2)]

\* if ratio > 0.5
RatioPassesInclusive(ratio) == 10 * ratio.num >= RatioThreshold * ratio.den
RatioPasses(ratio) == 10 * ratio.num > RatioThreshold * ratio.den

calculate_deal_similarity(deal1, deal2) ==
    LET s0 == 0
        s1 == IF IndustryEqual(deal1, deal2) THEN s0 + IndustryWeight ELSE s0
        val1 == Get(deal1, "value", 0)
        val2 == Get(deal2, "value", 0)
        s2 == IF val1 > 0 /\ val2 > 0 /\ RatioPasses(ValueRatio(val1, val2))
              THEN s1 + ValueWeight ELSE s1
        comp1 == Range(Get(deal1, "competitors", <<>>))
        comp2 == Range(Get(deal2, "competitors", <<>>))
        s3 == IF comp1 \cap comp2 # {} THEN s2 + CompetitorWeight ELSE s2
    IN  s3

\* if similarity_score > 0.3: similar_deals.append((deal, similarity_score))
PassesThresholdInclusive(score) == score >= SimilarityThreshold
PassesThreshold(score) == score > SimilarityThreshold

RECURSIVE SimilarDeals(_, _, _)
SimilarDeals(lost_deal, won_deals, i) ==
    IF i > Len(won_deals) THEN <<>>
    ELSE LET score == calculate_deal_similarity(lost_deal, won_deals[i])
             rest == SimilarDeals(lost_deal, won_deals, i + 1)
         IN  IF PassesThreshold(score)
             THEN <<[idx |-> i, deal |-> won_deals[i], score |-> score]>> \o rest
             ELSE rest

\* list.sort(key=score, reverse=True): a stable sort, so an item goes behind
\* every item already placed whose score is at least its own
InsertByScore(sorted, x) ==
    LET before == SelectSeq(sorted, LAMBDA y : y.score >= x.score)
        after == SelectSeq(sorted, LAMBDA y : y.score < x.score)
    IN  before \o <<x>> \o after

RECURSIVE SortByScoreDesc(_, _)
SortByScoreDesc(items, sorted) ==
    IF items = <<>> THEN sorted
    ELSE SortByScoreDesc(Tail(items), InsertByScore(sorted, Head(items)))

\* similar_deals[:n] for n >= 0
FirstN(s, n) == SubSeq(s, 1, Min2(n, Len(s)))

\* the ranked (deal, score) pairs the function returns the deals of; idx is the
\* deal's position in the corpus, kept beside the pair to state ranking claims
RankedSimilar(sample, lost_deal, n) ==
    LET won_deals == Get(sample, "won_deals", <<>>)
        similar_deals == SimilarDeals(lost_deal, won_deals, 1)
    IN  FirstN(SortByScoreDesc(similar_deals, <<>>), n)

get_won_deals_for_comparison(sample, lost_deal, n) ==
    LET top == RankedSimilar(sample, lost_deal, n)
    IN  [i \in DOMAIN top |-> top[i].deal]

-----------------------------------------------------------------------------
(* rag/data_processor.py: the metrics extractor *)

\* gaps: timeline[i]['day'] - timeline[i-1]['day'] for i in range(1, len)
GapsFromFirst(timeline) ==
    [i \in 1..(Len(timeline) - 1) |-> timeline[i + 1].day - timeline[1].day]
Gaps(timeline) ==
    [i \in 1..(Len(timeline) - 1) |-> timeline[i + 1].day - timeline[i].day]

CriticalKeywords == {Kw.proposal, Kw.demo, Kw.pricing, Kw.competitor, Kw.budget}

\* any(keyword in event['event'].lower() for keyword in [...])
IsCriticalEvent(event) ==
    \E kw \in CriticalKeywords : Contains(Lower(event.event), kw)

\* len(timeline) / total_duration if total_duration > 0 else 0
DensityInverted(number_of_events, total_duration) ==
    IF total_duration > 0 THEN Rat(total_duration, number_of_events) ELSE RatZero
Density(number_of_events, total_duration) ==
    IF total_duration > 0 THEN Rat(number_of_events, total_duration) ELSE RatZero

\* if not timeline: return {}
NoMetricsZeroed ==
    [total_duration_days |-> 0, number_of_events |-> 0,
     avg_response_gap_days |-> RatZero, max_response_gap_days |-> 0,
     timeline_density |-> RatZero, critical_events_count |-> 0]
NoMetrics == EmptyDict

extract_timeline_metrics(deal) ==
    LET timeline == Get(deal, "timeline", <<>>)
    IN  IF timeline = <<>> THEN NoMetrics
        ELSE
        LET days == [i \in DOMAIN timeline |-> timeline[i].day]
            total_duration == MaxSeq(days) - MinSeq(days)
            gaps == Gaps(timeline)
            avg_gap == IF gaps # <<>> THEN Rat(SumSeq(gaps), Len(gaps)) ELSE RatZero
            max_gap == IF gaps # <<>> THEN MaxSeq(gaps) ELSE 0
            critical_events == SelectSeq(timeline, IsCriticalEvent)
        IN  [total_duration_days |-> total_duration,
             number_of_events |-> Len(timeline),
             avg_response_gap_days |-> avg_gap,
             max_response_gap_days |-> max_gap,
             timeline_density |-> Density(Len(timeline), total_duration),
             critical_events_count |-> Len(critical_events)]

-----------------------------------------------------------------------------
(* Values of stage results: what json.loads and the agents' literals produce. *)
(* A str is a sequence of chunks whose concatenation is the text: one chunk    *)
(* per character where the text comes from a deal or a response, one chunk per *)
(* literal where the code writes the literal.                                  *)

JNum(n) == [t |-> "num", v |-> n]
JFloat(r) == [t |-> "float", v |-> r]
JStr(chunks) == [t |-> "str", v |-> chunks]
JLit(s) == [t |-> "str", v |-> <<s>>]
JBool(b) == [t |-> "bool", v |-> b]
JList(s) == [t |-> "list", v |-> s]
JObj(d) == [t |-> "obj", v |-> d]

\* Python truthiness: if value:
Truthy(j) ==
    CASE j.t = "num" -> j.v # 0
      [] j.t = "float" -> j.v.num # 0
      [] j.t = "bool" -> j.v
      [] j.t = "null" -> FALSE
      [] j.t = "str" -> j.v # <<>>
      [] j.t = "list" -> j.v # <<>>
      [] j.t = "obj" -> DOMAIN j.v # {}

\* what an f-string renders of a value
Rendered(j) ==
    CASE j.t = "str" -> j.v
      [] j.t = "num" -> <<ToString(j.v)>>
      [] OTHER -> <<"repr">>

MapSeq(s, F(_)) == [i \in DOMAIN s |-> F(s[i])]

Ok(value) == [ok |-> TRUE, value |-> value]
Raise(exc) == [ok |-> FALSE, exc |-> exc]

-----------------------------------------------------------------------------
(* What the generation collaborator can answer. A response text is a sequence *)
(* of characters; a member token stands for the characters of one             *)
(* "key": value member of a JSON object, separators included.                 *)

Member ==
    [m_fp_obj |-> [k |-> "failure_point",
                   v |-> JObj([day |-> JNum(5), event |-> JLit("Demo"),
                               reason |-> JLit("Competitor entered"),
                               recoverable |-> JLit("no")])],
     m_fp_str |-> [k |-> "failure_point", v |-> JLit("Day 5")],
     m_score |-> [k |-> "timeline_score", v |-> JNum(7)],
     m_dur_str |-> [k |-> "total_duration_days", v |-> JLit("ten")],
     m_dur_num |-> [k |-> "total_duration_days", v |-> JNum(4)],
     m_marker |-> [k |-> "fallback_analysis", v |-> JBool(TRUE)],
     m_rtc_obj |-> [k |-> "response_time_comparison",
                    v |-> JObj([lost_deal_avg_days |-> JNum(9),
                                won_deals_avg_days |-> JNum(1),
                                key_differences |-> JList(<<JLit("Slower")>>)])],
     m_rtc_str |-> [k |-> "response_time_comparison", v |-> JLit("slower")],
     m_impr |-> [k |-> "improvement_opportunities",
                 v |-> JList(<<JLit("Answer faster"), JLit("Qualify budget")>>)],
     m_impr_num |-> [k |-> "improvement_opportunities", v |-> JNum(3)],
     m_actions |-> [k |-> "immediate_actions",
                    v |-> JList(<<JObj([action |-> JLit("Call back"),
                                        owner |-> JLit("Rep"),
                                        timeline |-> JLit("1 day"),
                                        priority |-> JLit("low")])>>)],
     m_lp_str |-> [k |-> "learned_patterns", v |-> JLit("none")],
     m_pb_marker |-> [k |-> "fallback_playbook", v |-> JBool(TRUE)],
     m_note |-> [k |-> "note",
                 v |-> JStr(<<"r", "u", "n", " ", "BQ", "BQ", "BQ", "s", "h">>)]]

MemberTokens == DOMAIN Member
Whitespace == {" ", "\n", "\t"}

\* the backquote character, which a TLA+ string cannot hold
Backquote == "BQ"
Fence == <<Backquote, Backquote, Backquote>>
FenceJson == Fence \o <<"j", "s", "o", "n">>

\* str.find(sub): the 0-based index of the first occurrence, -1 if none
Find(s, sub) ==
    LET hits == {i \in 0..(Len(s) - Len(sub)) : SubSeq(s, i + 1, i + Len(sub)) = sub}
    IN  IF hits = {} THEN -1 ELSE CHOOSE i \in hits : \A j \in hits : i <= j

\* str.rfind(sub): the 0-based index of the last occurrence, -1 if none
RFind(s, sub) ==
    LET hits == {i \in 0..(Len(s) - Len(sub)) : SubSeq(s, i + 1, i + Len(sub)) = sub}
    IN  IF hits = {} THEN -1 ELSE CHOOSE i \in hits : \A j \in hits : i >= j

\* s[start:end] for 0 <= start, 0 <= end
Slice(s, start, end) == SubSeq(s, start + 1, Min2(end, Len(s)))

\* s.split(sep)[0]: what precedes the first sep
SplitHead(s, sep) ==
    IF Find(s, sep) = -1 THEN s ELSE Slice(s, 0, Find(s, sep))

\* s.split(sep)[1], for s that contains sep: what lies between the first sep
\* and the next one
SplitSecond(s, sep) ==
    SplitHead(Slice(s, Find(s, sep) + Len(sep), Len(s)), sep)

\* str.strip()
RECURSIVE LStrip(_)
LStrip(s) == IF s # <<>> /\ Head(s) \in Whitespace THEN LStrip(Tail(s)) ELSE s
RECURSIVE RStrip(_)
RStrip(s) ==
    IF s # <<>> /\ s[Len(s)] \in Whitespace THEN RStrip(SubSeq(s, 1, Len(s) - 1)) ELSE s
Strip(s) == RStrip(LStrip(s))

\* the dict of a sequence of member tokens; a repeated key keeps its last value
RECURSIVE DictOfMembers(_, _)
DictOfMembers(ms, d) ==
    IF ms = <<>> THEN d
    ELSE DictOfMembers(Tail(ms), Put(d, Member[Head(ms)].k, Member[Head(ms)].v))

\* the member m_note as a text spells it: its string value holds three
\* backquotes, which the searches of the parse step see as a fence
NoteSpelled == <<"note_head", Backquote, Backquote, Backquote, "note_tail">>

RECURSIVE JoinSpelled(_)
JoinSpelled(s) ==
    IF s = <<>> THEN <<>>
    ELSE IF Len(s) >= Len(NoteSpelled) /\ SubSeq(s, 1, Len(NoteSpelled)) = NoteSpelled
         THEN <<"m_note">> \o JoinSpelled(SubSeq(s, Len(NoteSpelled) + 1, Len(s)))
         ELSE <<Head(s)>> \o JoinSpelled(Tail(s))

\* json.loads(s): a dict for "{" members "}", JSONDecodeError for anything else
JsonLoads(s) ==
    LET spelled == SelectSeq(SubSeq(s, 2, Len(s) - 1), LAMBDA c : c \notin Whitespace)
        inner == JoinSpelled(spelled)
    IN  IF /\ Len(s) >= 2 /\ s[1] = "{" /\ s[Len(s)] = "}"
           /\ \A i \in DOMAIN spelled : spelled[i] # "m_note"
           /\ \A i \in DOMAIN inner : inner[i] \in MemberTokens
        THEN Ok(DictOfMembers(inner, EmptyDict))
        ELSE Raise("JSONDecodeError")

\* the try block of _parse_analysis_response, _parse_comparative_response and
\* _parse_playbook_response, whose texts are the same
ExtractJson(response_text) ==
    LET picked == IF Contains(response_text, FenceJson)
                  THEN Strip(SplitHead(SplitSecond(response_text, FenceJson), Fence))
                  ELSE IF Contains(response_text, Fence)
                       THEN Strip(SplitSecond(response_text, Fence))
                       ELSE response_text
        json_str == Strip(picked)
    IN  IF json_str # <<>> /\ json_str[1] = "{" /\ json_str[Len(json_str)] = "}"
        THEN JsonLoads(json_str)
        ELSE LET start_idx == Find(json_str, <<"{">>)
                 end_idx == RFind(json_str, <<"}">>) + 1
             IN  IF start_idx # -1 /\ end_idx # -1
                 THEN JsonLoads(Slice(json_str, start_idx, end_idx))
                 ELSE Raise("ValueError")

TruncateLimit == 500

\* response_text[:500] + "..." if len(response_text) > 500 else response_text
RawResponsePlainCut(response_text) ==
    JStr(Slice(response_text, 0, TruncateLimit))
RawResponse(response_text) ==
    IF Len(response_text) > TruncateLimit
    THEN JStr(Slice(response_text, 0, TruncateLimit) \o <<".", ".", ".">>)
    ELSE JStr(response_text)

-----------------------------------------------------------------------------
(* What a stage call ends with: a returned record, or an exception that leaves *)
(* the stage. path tells which code path built the record.                     *)

GenFail == [ok |-> FALSE]
GenText(text) == [ok |-> TRUE, text |-> text]

Returned(value, path) == [raised |-> FALSE, value |-> value, path |-> path]
Raised(exc) == [raised |-> TRUE, exc |-> exc, path |-> "raised"]

IsNumber(j) == j.t \in {"num", "float", "bool"}
AsRat(j) ==
    CASE j.t = "num" -> RatOfInt(j.v)
      [] j.t = "float" -> j.v
      [] j.t = "bool" -> RatOfInt(IF j.v THEN 1 ELSE 0)

-----------------------------------------------------------------------------
(* agents/timeline_agent.py *)

create_structured_fallback(response_text) ==
    [critical_moments |-> JList(<<JObj(
         [day |-> JNum(0), event |-> JLit("Analysis Error"),
          impact |-> JLit("negative"),
          description |-> JLit("Failed to parse AI response")])>>),
     warning_signals |-> JList(<<JObj(
         [day |-> JNum(0), signal |-> JLit("Parsing Error"),
          severity |-> JLit("medium"),
          description |-> JLit("Could not parse the analysis response")])>>),
     failure_point |-> JObj(
         [day |-> JNum(0), event |-> JLit("Analysis Failure"),
          reason |-> JLit("Technical error in parsing response"),
          recoverable |-> JLit("yes")]),
     response_time_issues |-> JList(<<>>),
     timeline_score |-> JNum(5),
     recommendations |-> JList(<<JLit("Check the AI response format"),
                                 JLit("Verify the input data quality")>>),
     raw_response |-> RawResponse(response_text)]

parse_analysis_response(response_text) ==
    LET loaded == ExtractJson(response_text)
    IN  IF loaded.ok THEN loaded.value
        ELSE create_structured_fallback(response_text)

\* gap = timeline_events[i]['day'] - timeline_events[i-1]['day']
TimeGaps(timeline_events) ==
    [i \in 1..(Len(timeline_events) - 1) |->
        timeline_events[i + 1].day - timeline_events[i].day]

enhance_with_calculations(analysis, deal_data) ==
    LET timeline_events == Get(deal_data, "timeline", <<>>)
        n == Len(timeline_events)
        time_gaps == TimeGaps(timeline_events)
        total_days == timeline_events[n].day - timeline_events[1].day
        timed == IF n > 1
                 THEN Put(Put(Put(analysis,
                          "total_duration_days", JNum(total_days)),
                          "avg_response_days",
                              JFloat(Rat(SumSeq(time_gaps), Len(time_gaps)))),
                          "max_response_gap", JNum(MaxSeq(time_gaps)))
                 ELSE analysis
    IN  IF ~Has(timed, "total_duration_days") THEN Ok(timed)
        ELSE LET duration == timed["total_duration_days"]
             IN  IF ~IsNumber(duration) THEN Raise("TypeError")
                 ELSE IF AsRat(duration).num > 0
                      THEN Ok(Put(timed, "timeline_density",
                                  JFloat(Rat(n * AsRat(duration).den,
                                             AsRat(duration).num))))
                      ELSE Ok(timed)

CriticalMomentWords == {Kw.proposal, Kw.demo, Kw.meeting, Kw.pricing}
WarningWords == {Kw.delay, Kw.ghost, Kw.concern, Kw.competitor, Kw.budget}
FailureWords == {Kw.ghost, Kw.lost, Kw.competitor, Kw.no_response}

AnyIn(words, text) == \E w \in words : Contains(text, w)

CriticalMoment(event) ==
    JObj([day |-> JNum(event.day),
          event |-> JStr(event.event),
          impact |-> IF Contains(Lower(event.details), Kw.positive)
                     THEN JLit("positive") ELSE JLit("negative"),
          description |-> JStr(event.details)])

WarningSignal(event) ==
    JObj([day |-> JNum(event.day),
          signal |-> JLit("Potential Issue"),
          severity |-> JLit("medium"),
          description |-> JStr(event.details)])

\* if gap > 2
SlowGap(gap) == gap > 2

RECURSIVE ResponseIssues(_, _)
ResponseIssues(timeline_events, i) ==
    IF i > Len(timeline_events) THEN <<>>
    ELSE LET gap == timeline_events[i].day - timeline_events[i - 1].day
             rest == ResponseIssues(timeline_events, i + 1)
         IN  IF SlowGap(gap)
             THEN <<JObj([delay_days |-> JNum(gap),
                          event |-> JStr(timeline_events[i].event),
                          impact |-> JLit("Potential loss of momentum")])>> \o rest
             ELSE rest

\* for event in reversed(timeline_events): the last event in list order whose
\* details hold a failure word; 0 when there is none
FirstFailureIndex(timeline_events) ==
    LET hits == {i \in DOMAIN timeline_events :
                    AnyIn(FailureWords, Lower(timeline_events[i].details))}
    IN  IF hits = {} THEN 0 ELSE CHOOSE i \in hits : \A j \in hits : i <= j
FailureIndex(timeline_events) ==
    LET hits == {i \in DOMAIN timeline_events :
                    AnyIn(FailureWords, Lower(timeline_events[i].details))}
    IN  IF hits = {} THEN 0 ELSE CHOOSE i \in hits : \A j \in hits : i >= j

FallbackScore == JNum(6)

get_fallback_analysis(deal_data) ==
    LET timeline_events == Get(deal_data, "timeline", <<>>)
        critical_moments ==
            MapSeq(SelectSeq(timeline_events,
                       LAMBDA e : AnyIn(CriticalMomentWords, Lower(e.event))),
                   CriticalMoment)
        warning_signals ==
            MapSeq(SelectSeq(timeline_events,
                       LAMBDA e : AnyIn(WarningWords, Lower(e.details))),
                   WarningSignal)
        response_issues == ResponseIssues(timeline_events, 2)
        failure == FailureIndex(timeline_events)
    IN  IF failure = 0 /\ timeline_events = <<>>
        THEN Raise("IndexError")      \* timeline_events[-1] of an empty list
        ELSE Ok(
        [critical_moments |-> JList(FirstN(critical_moments, 3)),
         warning_signals |-> JList(FirstN(warning_signals, 3)),
         failure_point |-> JObj(
             [day |-> IF failure # 0
                      THEN JNum(timeline_events[failure].day)
                      ELSE JNum(timeline_events[Len(timeline_events)].day),
              event |-> IF failure # 0
                        THEN JStr(timeline_events[failure].event)
                        ELSE JLit("Unknown"),
              reason |-> JLit("Identified through pattern matching"),
              recoverable |-> JLit("yes")]),
         response_time_issues |-> JList(response_issues),
         timeline_score |-> FallbackScore,
         recommendations |-> JList(
             <<JLit("Reduce response times between key events"),
               JLit("Monitor for warning signals more proactively"),
               JLit("Implement automated follow-up system")>>),
         fallback_analysis |-> JBool(TRUE)])

\* the except branch: return self._get_fallback_analysis(deal_data)
TimelineExcept(deal_data) ==
    LET fallback == get_fallback_analysis(deal_data)
    IN  IF fallback.ok THEN Returned(fallback.value, "rule_fallback")
        ELSE Raised(fallback.exc)

analyze_timeline(deal_data, gen) ==
    IF ~gen.ok THEN TimelineExcept(deal_data)
    ELSE LET analysis == parse_analysis_response(gen.text)
             enhanced == enhance_with_calculations(analysis, deal_data)
         IN  IF enhanced.ok
             THEN Returned(enhanced.value,
                           IF ExtractJson(gen.text).ok THEN "parsed"
                           ELSE "parse_fallback")
             ELSE TimelineExcept(deal_data)

-----------------------------------------------------------------------------
(* agents/comparative_agent.py *)

\* "\n\n".join(context_parts)
RECURSIVE JoinParts(_, _)
JoinParts(parts, sep) ==
    IF parts = <<>> THEN <<>>
    ELSE IF Len(parts) = 1 THEN parts[1]
         ELSE parts[1] \o <<sep>> \o JoinParts(Tail(parts), sep)

\* the prompt text built from the search result before the try block
prepare_won_deals_context(similar_won_deals) ==
    IF DOMAIN similar_won_deals = {} \/ ~Has(similar_won_deals, "documents")
    THEN <<"No similar won deals found for comparison.">>
    ELSE LET documents == IF similar_won_deals["documents"] # <<>>
                          THEN similar_won_deals["documents"][1] ELSE <<>>
             metadatas == IF similar_won_deals["metadatas"] # <<>>
                          THEN similar_won_deals["metadatas"][1] ELSE <<>>
         IN  JoinParts([i \in 1..Min2(Len(documents), Len(metadatas)) |->
                           <<"WON DEAL ", ToString(i), ": ">> \o documents[i]],
                       "\n\n")

create_comparative_fallback(response_text) ==
    [response_time_comparison |-> JObj(
         [lost_deal_avg_days |-> JLit("Unknown"),
          won_deals_avg_days |-> JLit("Unknown"),
          key_differences |-> JList(<<JLit("Could not parse response")>>)]),
     strategy_differences |-> JList(<<JObj(
         [aspect |-> JLit("Analysis Error"),
          lost_approach |-> JLit("Unknown"),
          won_approach |-> JLit("Unknown"),
          recommendation |-> JLit("Check data quality and retry analysis")])>>),
     competitive_analysis |-> JObj(
         [competitor_mentions |-> JList(<<>>),
          winning_strategies |-> JList(<<>>),
          losing_patterns |-> JList(<<>>)]),
     success_factors |-> JList(<<JLit("Unable to determine from available data")>>),
     improvement_opportunities |->
         JList(<<JLit("Improve data quality for better analysis")>>),
     raw_response |-> RawResponse(response_text)]

parse_comparative_response(response_text) ==
    LET loaded == ExtractJson(response_text)
    IN  IF loaded.ok THEN loaded.value
        ELSE create_comparative_fallback(response_text)

\* gap = lost_timeline[i]['day'] - lost_timeline[i-1]['day']
LostGaps(lost_timeline) ==
    [i \in 1..(Len(lost_timeline) - 1) |->
        lost_timeline[i + 1].day - lost_timeline[i].day]

enhance_with_quantitative_analysis(analysis, lost_deal, similar_won_deals) ==
    LET lost_timeline == Get(lost_deal, "timeline", <<>>)
        lost_gaps == LostGaps(lost_timeline)
    IN  IF Len(lost_timeline) > 1 /\ lost_gaps # <<>>
        THEN IF ~Has(analysis, "response_time_comparison") THEN Raise("KeyError")
             ELSE IF analysis["response_time_comparison"].t # "obj"
                  THEN Raise("TypeError")
                  ELSE LET rtc == analysis["response_time_comparison"].v
                           measured ==
                               Put(Put(rtc,
                                   "lost_deal_avg_days",
                                       JFloat(Rat(SumSeq(lost_gaps), Len(lost_gaps)))),
                                   "lost_deal_max_gap", JNum(MaxSeq(lost_gaps)))
                       IN  Ok(Put(Put(analysis,
                               "response_time_comparison", JObj(measured)),
                               "confidence_score", JNum(85)))
        ELSE Ok(Put(analysis, "confidence_score", JNum(85)))

\* the fallback's "response_time_comparison": literals
FallbackResponseTimesMeasured(lost_deal, similar_won_deals) ==
    LET lost_gaps == LostGaps(Get(lost_deal, "timeline", <<>>))
    IN  JObj(
         [lost_deal_avg_days |-> IF lost_gaps # <<>>
                                 THEN JFloat(Rat(SumSeq(lost_gaps), Len(lost_gaps)))
                                 ELSE JFloat(Rat(25, 10)),
          won_deals_avg_days |-> JFloat(Rat(12, 10)),
          key_differences |->
              JList(<<JLit("Won deals typically had faster response times")>>)])
FallbackResponseTimes(lost_deal, similar_won_deals) ==
    JObj(
         [lost_deal_avg_days |-> JFloat(Rat(25, 10)),
          won_deals_avg_days |-> JFloat(Rat(12, 10)),
          key_differences |->
              JList(<<JLit("Won deals typically had faster response times")>>)])

get_fallback_comparative_analysis(lost_deal, similar_won_deals) ==
    [response_time_comparison |-> FallbackResponseTimes(lost_deal, similar_won_deals),
     strategy_differences |-> JList(<<JObj(
         [aspect |-> JLit("Proposal Timing"),
          lost_approach |-> JLit("Delayed proposal submission"),
          won_approach |-> JLit("Rapid proposal follow-up"),
          recommendation |->
              JLit("Submit proposals within 24 hours of initial interest")])>>),
     competitive_analysis |-> JObj(
         [competitor_mentions |->
              JList(MapSeq(Get(lost_deal, "competitors", <<>>), JLit)),
          winning_strategies |->
              JList(<<JLit("Quick response times"), JLit("Customized demos")>>),
          losing_patterns |->
              JList(<<JLit("Delayed follow-ups"), JLit("Generic proposals")>>)]),
     success_factors |-> JList(
         <<JLit("Rapid response to inquiries"),
           JLit("Customized value propositions"),
           JLit("Proactive competitor positioning")>>),
     improvement_opportunities |-> JList(
         <<JLit("Reduce average response time to under 24 hours"),
           JLit("Develop competitor-specific counter strategies"),
           JLit("Implement automated follow-up reminders")>>),
     fallback_analysis |-> JBool(TRUE)]

compare_with_won_deals(lost_deal, similar_won_deals, gen) ==
    IF ~gen.ok
    THEN Returned(get_fallback_comparative_analysis(lost_deal, similar_won_deals),
                  "rule_fallback")
    ELSE LET analysis == parse_comparative_response(gen.text)
             enhanced == enhance_with_quantitative_analysis(
                             analysis, lost_deal, similar_won_deals)
         IN  IF enhanced.ok
             THEN Returned(enhanced.value,
                           IF ExtractJson(gen.text).ok THEN "parsed"
                           ELSE "parse_fallback")
             ELSE Returned(get_fallback_comparative_analysis(
                               lost_deal, similar_won_deals), "rule_fallback")

\* what a call of compare_with_won_deals leaves in the two objects it
\* receives: it reads them; the item assignments of the enhance step are on
\* analysis, the object the parse step has just created
compare_with_won_deals_leaves(lost_deal, similar_won_deals, gen) ==
    <<lost_deal, similar_won_deals>>

-----------------------------------------------------------------------------
(* agents/playbook_agent.py *)

create_playbook_fallback(response_text) ==
    [immediate_actions |-> JList(<<JObj(
         [action |-> JLit("Review and improve response time protocols"),
          owner |-> JLit("Sales Manager"),
          timeline |-> JLit("1 week"),
          priority |-> JLit("high")])>>),
     trigger_responses |-> JList(<<JObj(
         [trigger |-> JLit("Budget concern mentioned"),
          immediate_action |-> JLit("Send ROI calculator within 4 hours"),
          follow_up |-> JLit("Schedule value demonstration within 24 hours"),
          timeframe |-> JLit("4 hours")])>>),
     competitor_strategies |-> JList(<<JObj(
         [competitor |-> JLit("General"),
          counter_strategy |-> JLit("Focus on unique value proposition"),
          key_messages |-> JList(<<JLit("Our differentiator is..."),
                                   JLit("Customers choose us because...")>>)])>>),
     timing_guidelines |-> JList(<<JObj(
         [scenario |-> JLit("Initial inquiry"),
          max_response_time |-> JLit("2 hours"),
          best_practice |->
              JLit("Respond within 1 hour with personalized message")])>>),
     escalation_protocols |-> JList(<<JObj(
         [condition |-> JLit("No response after 3 follow-ups"),
          action |-> JLit("Engage sales manager for personal outreach"),
          escalate_to |-> JLit("Sales Manager")])>>),
     success_metrics |-> JList(<<JObj(
         [metric |-> JLit("Average response time"),
          target |-> JLit("< 4 hours"),
          measurement_frequency |-> JLit("Weekly")])>>),
     raw_response |-> RawResponse(response_text)]

parse_playbook_response_unfenced(response_text) ==
    LET loaded == JsonLoads(Strip(response_text))
    IN  IF loaded.ok THEN loaded.value
        ELSE create_playbook_fallback(response_text)

parse_playbook_response(response_text) ==
    LET loaded == ExtractJson(response_text)
    IN  IF loaded.ok THEN loaded.value
        ELSE create_playbook_fallback(response_text)

\* playbook.setdefault('learned_patterns', []).append(entry)
AppendPattern(playbook, entry) ==
    IF ~Has(playbook, "learned_patterns")
    THEN Ok(Put(playbook, "learned_patterns", JList(<<entry>>)))
    ELSE IF playbook["learned_patterns"].t # "list"
         THEN Raise("AttributeError")
         ELSE Ok(Put(playbook, "learned_patterns",
                     JList(Append(playbook["learned_patterns"].v, entry))))

RECURSIVE AppendPatterns(_, _)
AppendPatterns(playbook, entries) ==
    IF entries = <<>> THEN Ok(playbook)
    ELSE LET one == AppendPattern(playbook, Head(entries))
         IN  IF one.ok THEN AppendPatterns(one.value, Tail(entries)) ELSE one

FailurePattern(failure_point) ==
    JObj([pattern |-> JStr(<<"Failure at ">>
                           \o Rendered(Get(failure_point, "event",
                                           JLit("unknown event")))),
          insight |-> Get(failure_point, "reason", JLit("Unknown reason")),
          prevention |-> JStr(<<"Monitor for ">>
                              \o Rendered(Get(failure_point, "event",
                                              JLit("similar events")))
                              \o <<" proactively">>)])

GapPattern(improvement) ==
    JObj([pattern |-> JLit("Comparative gap identified"),
          insight |-> improvement,
          prevention |-> JStr(<<"Implement: ">> \o Rendered(improvement))])

enhance_with_pattern_learning(playbook, timeline_analysis, comparative_analysis) ==
    LET failure_point == Get(timeline_analysis, "failure_point", JObj(EmptyDict))
        learned == IF ~Truthy(failure_point) THEN Ok(playbook)
                   ELSE IF failure_point.t # "obj" THEN Raise("AttributeError")
                        ELSE AppendPattern(playbook, FailurePattern(failure_point.v))
        improvements == Get(comparative_analysis, "improvement_opportunities",
                            JList(<<>>))
    IN  IF ~learned.ok THEN learned
        ELSE IF improvements.t \notin {"list", "str"} THEN Raise("TypeError")
             ELSE LET first3 == IF improvements.t = "list"
                                THEN FirstN(improvements.v, 3)
                                ELSE MapSeq(FirstN(improvements.v, 3),
                                            LAMBDA c : JStr(<<c>>))
                      compared == AppendPatterns(learned.value,
                                                 MapSeq(first3, GapPattern))
                  IN  IF ~compared.ok THEN compared
                      ELSE Ok(Put(Put(compared.value,
                                  "confidence_score", JNum(88)),
                                  "expected_impact", JLit("High")))

get_fallback_playbook(timeline_analysis, comparative_analysis, lost_deal_data) ==
    LET competitors == Get(lost_deal_data, "competitors", <<"Unknown">>)
    IN  IF competitors = <<>>
        THEN Raise("IndexError")       \* [0] of an empty competitors list
        ELSE Ok(
        [immediate_actions |-> JList(
             <<JObj([action |-> JLit("Implement 24-hour maximum response time policy"),
                     owner |-> JLit("Sales Team"),
                     timeline |-> JLit("Immediately"),
                     priority |-> JLit("high")]),
               JObj([action |-> JLit("Create competitor response toolkit"),
                     owner |-> JLit("Sales Enablement"),
                     timeline |-> JLit("2 weeks"),
                     priority |-> JLit("medium")])>>),
         trigger_responses |-> JList(
             <<JObj([trigger |-> JLit("Competitor mentioned"),
                     immediate_action |->
                         JLit("Send relevant case study and differentiation guide"),
                     follow_up |-> JLit("Schedule competitive positioning discussion"),
                     timeframe |-> JLit("4 hours")]),
               JObj([trigger |-> JLit("Budget concerns"),
                     immediate_action |->
                         JLit("Send ROI calculator and payment flexibility options"),
                     follow_up |-> JLit("Schedule financial justification session"),
                     timeframe |-> JLit("4 hours")])>>),
         competitor_strategies |-> JList(
             <<JObj([competitor |-> JLit(competitors[1]),
                     counter_strategy |-> JLit("Focus on long-term value and ROI"),
                     key_messages |-> JList(
                         <<JLit("Our solution provides 3x ROI within 12 months"),
                           JLit("Unlike competitors, we offer dedicated support")>>)])>>),
         timing_guidelines |-> JList(
             <<JObj([scenario |-> JLit("Initial contact"),
                     max_response_time |-> JLit("2 hours"),
                     best_practice |-> JLit("Personalized response within 1 hour")]),
               JObj([scenario |-> JLit("After demo"),
                     max_response_time |-> JLit("4 hours"),
                     best_practice |-> JLit("Follow-up with specific next steps")])>>),
         escalation_protocols |-> JList(
             <<JObj([condition |-> JLit("Deal stalled for 7+ days"),
                     action |-> JLit("Sales manager personal outreach"),
                     escalate_to |-> JLit("Sales Manager")]),
               JObj([condition |-> JLit("Competitor win likely"),
                     action |-> JLit("Executive engagement and special terms"),
                     escalate_to |-> JLit("VP Sales")])>>),
         success_metrics |-> JList(
             <<JObj([metric |-> JLit("Deal win rate"),
                     target |-> JLit("Increase by 15%"),
                     measurement_frequency |-> JLit("Monthly")]),
               JObj([metric |-> JLit("Average response time"),
                     target |-> JLit("< 4 hours"),
                     measurement_frequency |-> JLit("Weekly")])>>),
         fallback_playbook |-> JBool(TRUE)])

\* the except branch: return self._get_fallback_playbook(...)
PlaybookExcept(timeline_analysis, comparative_analysis, lost_deal_data) ==
    LET fallback == get_fallback_playbook(timeline_analysis, comparative_analysis,
                                          lost_deal_data)
    IN  IF fallback.ok THEN Returned(fallback.value, "rule_fallback")
        ELSE Raised(fallback.exc)

generate_playbook(timeline_analysis, comparative_analysis, lost_deal_data, gen) ==
    IF ~gen.ok
    THEN PlaybookExcept(timeline_analysis, comparative_analysis, lost_deal_data)
    ELSE LET playbook == parse_playbook_response(gen.text)
             enhanced == enhance_with_pattern_learning(
                             playbook, timeline_analysis, comparative_analysis)
         IN  IF enhanced.ok
             THEN Returned(enhanced.value,
                           IF ExtractJson(gen.text).ok THEN "parsed"
                           ELSE "parse_fallback")
             ELSE PlaybookExcept(timeline_analysis, comparative_analysis,
                                 lost_deal_data)

\* what a call of generate_playbook leaves in the three objects it receives.
\* It reads them with .get and json.dumps; every item assignment, setdefault
\* and append of the method and of its enhance step is on playbook, the
\* object json.loads or the fallback builder has just created.
generate_playbook_leaves_score_on_comparison(timeline_analysis, comparative_analysis, lost_deal_data, gen) ==
    <<timeline_analysis,
      IF gen.ok THEN Put(comparative_analysis, "confidence_score", JNum(88))
      ELSE comparative_analysis,
      lost_deal_data>>
generate_playbook_leaves(timeline_analysis, comparative_analysis, lost_deal_data, gen) ==
    <<timeline_analysis, comparative_analysis, lost_deal_data>>

-----------------------------------------------------------------------------
(* rag/vector_store.py. The collection is the sequence of its records, in the *)
(* order they were added.                                                     *)

RECURSIVE EventsText(_)
EventsText(timeline) ==
    IF timeline = <<>> THEN <<>>
    ELSE <<"Day ", ToString(timeline[1].day), ": ">> \o timeline[1].event
         \o <<" - ">> \o timeline[1].details \o <<". ">>
         \o EventsText(Tail(timeline))

LostDocument(deal) ==
    [document |-> <<"Lost Deal: ", deal["company"], ". Reason: ",
                    Get(deal, "loss_reason", "unknown"), ". ">>
                  \o EventsText(deal["timeline"]),
     metadata |-> [type |-> "lost", deal_id |-> deal["deal_id"],
                   company |-> deal["company"]],
     id |-> <<"lost_", deal["deal_id"]>>]

WonDocument(deal) ==
    [document |-> <<"Won Deal: ", deal["company"], ". ">>
                  \o EventsText(deal["timeline"]),
     metadata |-> [type |-> "won", deal_id |-> deal["deal_id"],
                   company |-> deal["company"]],
     id |-> <<"won_", deal["deal_id"]>>]

NewRecords(deals_data) ==
    MapSeq(Get(deals_data, "lost_deals", <<>>), LostDocument)
    \o MapSeq(Get(deals_data, "won_deals", <<>>), WonDocument)

HasDuplicateIds(records) ==
    \E i, j \in DOMAIN records : i # j /\ records[i].id = records[j].id

\* collection.add: a batch that repeats an id is refused as a whole; a record
\* whose id the collection already holds is skipped
CollectionAdd(held, records) ==
    held \o SelectSeq(records,
                LAMBDA r : \A i \in DOMAIN held : held[i].id # r.id)

\* store_deals: what the collection holds afterwards, and whether the call
\* returned (ok) or let the failure of collection.add out
store_deals_without_clear(held, deals_data, get_ok, delete_ok, add_ok) ==
    LET records == NewRecords(deals_data)
    IN  IF records = <<>> THEN [ok |-> TRUE, collection |-> held]
        ELSE IF ~add_ok \/ HasDuplicateIds(records)
             THEN [ok |-> FALSE, collection |-> held]
             ELSE [ok |-> TRUE, collection |-> CollectionAdd(held, records)]
store_deals(held, deals_data, get_ok, delete_ok, add_ok) ==
    LET records == NewRecords(deals_data)
        cleared == IF get_ok /\ held # <<>> /\ delete_ok THEN <<>> ELSE held
    IN  IF records = <<>> THEN [ok |-> TRUE, collection |-> cleared]
        ELSE IF ~add_ok \/ HasDuplicateIds(records)
             THEN [ok |-> FALSE, collection |-> cleared]
             ELSE [ok |-> TRUE, collection |-> CollectionAdd(cleared, records)]

EmptySearchResult ==
    [documents |-> << <<>> >>, metadatas |-> << <<>> >>, ids |-> << <<>> >>]

\* the indexes of the records of the given type
Matching(held, deal_type) == {i \in DOMAIN held : held[i].metadata.type = deal_type}

\* the rankings the collaborator may return: every ordering of the n_results
\* nearest matches, nearness being the collaborator's business
Rankings(held, deal_type, n_results) ==
    LET m == Matching(held, deal_type)
        k == Min2(n_results, Cardinality(m))
    IN  {r \in [1..k -> m] : \A i, j \in 1..k : i # j => r[i] # r[j]}

DefaultNResults == 3

search_similar_deals_flat(held, query, deal_type, query_ok, ranking) ==
    IF ~query_ok THEN [documents |-> <<>>, metadatas |-> <<>>, ids |-> <<>>]
    ELSE [documents |-> << [i \in DOMAIN ranking |-> held[ranking[i]].document] >>,
          metadatas |-> << [i \in DOMAIN ranking |-> held[ranking[i]].metadata] >>,
          ids |-> << [i \in DOMAIN ranking |-> held[ranking[i]].id] >>]

search_similar_deals(held, query, deal_type, query_ok, ranking) ==
    IF ~query_ok THEN EmptySearchResult
    ELSE [documents |-> << [i \in DOMAIN ranking |-> held[ranking[i]].document] >>,
          metadatas |-> << [i \in DOMAIN ranking |-> held[ranking[i]].metadata] >>,
          ids |-> << [i \in DOMAIN ranking |-> held[ranking[i]].id] >>]

-----------------------------------------------------------------------------
(* rag/data_processor.py: lookups in the corpus *)

NoneValue == [none |-> TRUE]
NoneId == "None"

\* get_all_deals(deal_type): the records the collection holds, of the given type
\* when one is given; the empty lists when collection.get raises
get_all_deals(held, deal_type, get_ok) ==
    LET kept == SelectSeq(held, LAMBDA r : deal_type = NoneId
                                           \/ r.metadata.type = deal_type)
    IN  IF ~get_ok THEN [documents |-> <<>>, metadatas |-> <<>>, ids |-> <<>>]
        ELSE [documents |-> [i \in DOMAIN kept |-> kept[i].document],
              metadatas |-> [i \in DOMAIN kept |-> kept[i].metadata],
              ids |-> [i \in DOMAIN kept |-> kept[i].id]]

get_all_lost_deals(sample) == Get(sample, "lost_deals", <<>>)

get_lost_deal_by_id_empty(sample, deal_id) ==
    LET lost == Get(sample, "lost_deals", <<>>)
        hits == {i \in DOMAIN lost : lost[i]["deal_id"] = deal_id}
    IN  IF hits = {} THEN EmptyDict
        ELSE lost[CHOOSE i \in hits : \A j \in hits : i <= j]

get_lost_deal_by_id(sample, deal_id) ==
    LET lost == Get(sample, "lost_deals", <<>>)
        hits == {i \in DOMAIN lost : lost[i]["deal_id"] = deal_id}
    IN  IF hits = {} THEN NoneValue
        ELSE lost[CHOOSE i \in hits : \A j \in hits : i <= j]

\* prepare_deal_for_analysis: what it returns and the corpus afterwards; the
\* deal it returns is the corpus's own record, which the two assignments change
prepare_deal_for_analysis(sample, deal_id) ==
    LET lost == Get(sample, "lost_deals", <<>>)
        hits == {i \in DOMAIN lost : lost[i]["deal_id"] = deal_id}
    IN  IF hits = {} THEN [ret |-> NoneValue, sample |-> sample]
        ELSE LET k == CHOOSE i \in hits : \A j \in hits : i <= j
                 with_metrics ==
                     Put(lost[k], "metrics", extract_timeline_metrics(lost[k]))
                 prepared ==
                     Put(with_metrics, "similar_won_deals",
                         get_won_deals_for_comparison(sample, with_metrics, DefaultN))
             IN  [ret |-> prepared,
                  sample |-> Put(sample, "lost_deals", [lost EXCEPT ![k] = prepared])]

-----------------------------------------------------------------------------
(* The run of main(): the inputs it can meet *)

ScenarioTimeline ==
    <<Event(0, Txt.initial_contact, Txt.positive_interest),
      Event(5, Txt.demo, Txt.competitor_budget),
      Event(12, Txt.follow_up, Txt.ghosted)>>

RunEvents == Range(ScenarioTimeline)

RunTimelines == SeqsUpTo(RunEvents, MaxTimeline) \cup {ScenarioTimeline}

\* lost deals that pass validate_deal_data: deal_id, company and a timeline
\* whose events have day, event and details; the other fields are optional
RunLostDeals ==
    {[deal_id |-> "L1", company |-> "Acme", industry |-> "tech", value |-> 50000,
      loss_reason |-> "price", competitors |-> c, timeline |-> t] :
        c \in {<<>>, <<"ABC">>}, t \in RunTimelines}
    \cup {[deal_id |-> "L1", company |-> "Acme", industry |-> "tech",
           value |-> 50000, timeline |-> t] : t \in RunTimelines}
    \cup {[deal_id |-> "L1", company |-> "Acme", timeline |-> ScenarioTimeline]}

RunWonDeals ==
    {[deal_id |-> "W1", company |-> "Globex", industry |-> "tech", value |-> 60000,
      competitors |-> <<"ABC">>,
      timeline |-> <<Event(0, Txt.demo, Txt.ok), Event(1, Txt.call, Txt.ok)>>]}

RunCorpora ==
    {[lost_deals |-> l, won_deals |-> w] :
        l \in SeqsUpTo(RunLostDeals, 1), w \in SeqsUpTo(RunWonDeals, MaxPipelineWon)}

\* what an earlier run left in the persistent collection
EarlierPopulation ==
    <<WonDocument([deal_id |-> "W0", company |-> "Initech",
                   timeline |-> <<Event(0, Txt.call, Txt.ok)>>])>>

Prose == <<"S", "e", "e", ":", "\n">>

TimelineTexts ==
    {Prose \o FenceJson \o <<"\n", "{", "m_fp_obj", "m_score", "}", "\n">> \o Fence,
     <<"{", "}">>,
     <<"{", "m_dur_str", "m_fp_str", "}">>,
     Prose \o <<"{", "m_dur_num", "m_marker", "m_score", "}", ".">>,
     Prose}

ComparativeTexts ==
    {Fence \o <<"\n", "{", "m_rtc_obj", "m_impr", "}", "\n">> \o Fence,
     <<"{", "m_impr_num", "}">>,
     <<"{", "m_rtc_str", "m_marker", "}">>,
     Prose \o <<"}", "{">>}

PlaybookTexts ==
    {<<"{", "m_actions", "}">>,
     <<"{", "m_lp_str", "m_pb_marker", "}">>,
     <<"{", "m_actions">>}

Gens(texts) == {GenFail} \cup {GenText(t) : t \in texts}

Stages == {"timeline", "comparative", "playbook"}

RunOff ==
    /\ sample_data = [lost_deals |-> <<>>, won_deals |-> <<>>]
    /\ collection = <<>>
    /\ pc = "off"
    /\ selected_deal_id = NoneId
    /\ main_lost_deal = NoneValue
    /\ main_timeline_analysis = NoneValue
    /\ main_similar_won = NoneValue
    /\ main_comparative_analysis = NoneValue
    /\ main_playbook = NoneValue
    /\ stage_path = EmptyDict
    /\ gens = EmptyDict
    /\ calls = <<>>

-----------------------------------------------------------------------------
(* main.py: one run of main(), from the components constructed (line 23) to *)
(* the playbook generated (line 74); what follows renders the results.      *)

Init ==
    /\ op = "none"
    /\ arg = NoneValue
    /\ ret = NoneValue
    /\ sample_data \in RunCorpora
    /\ collection \in {<<>>, EarlierPopulation}
    /\ pc = "store"
    /\ selected_deal_id = NoneId
    /\ main_lost_deal = NoneValue
    /\ main_timeline_analysis = NoneValue
    /\ main_similar_won = NoneValue
    /\ main_comparative_analysis = NoneValue
    /\ main_playbook = NoneValue
    /\ stage_path = EmptyDict
    /\ gens = EmptyDict
    /\ calls = <<>>

\* vector_store.store_deals(sample_data)
StoreDeals ==
    /\ pc = "store"
    /\ \E get_ok, delete_ok, add_ok \in BOOLEAN :
           LET stored == store_deals(collection, sample_data,
                                     get_ok, delete_ok, add_ok)
           IN  /\ collection' = stored.collection
               /\ pc' = IF stored.ok THEN "select" ELSE "raised"
    /\ UNCHANGED <<op, arg, ret, sample_data, selected_deal_id, main_lost_deal,
                   main_timeline_analysis, main_similar_won,
                   main_comparative_analysis, main_playbook, stage_path, gens,
                   calls>>

\* the selectbox over the lost deals' ids and the "Run Forensic Analysis" button
SelectDeal ==
    /\ pc = "select"
    /\ LET lost_deals == get_all_lost_deals(sample_data)
           options == {lost_deals[i]["deal_id"] : i \in DOMAIN lost_deals}
       IN  \E choice \in (IF options = {} THEN {NoneId} ELSE options),
              pressed \in BOOLEAN :
               /\ selected_deal_id' = choice
               /\ pc' = IF pressed THEN "lookup" ELSE "idle"
    /\ UNCHANGED <<op, arg, ret, sample_data, collection, main_lost_deal,
                   main_timeline_analysis, main_similar_won,
                   main_comparative_analysis, main_playbook, stage_path, gens,
                   calls>>

\* lost_deal = get_lost_deal_by_id(selected_deal_id); if not lost_deal: return
LookupDeal ==
    /\ pc = "lookup"
    /\ main_lost_deal' = get_lost_deal_by_id(sample_data, selected_deal_id)
    /\ pc' = IF get_lost_deal_by_id(sample_data, selected_deal_id) = NoneValue
             THEN "not_found" ELSE "overview"
    /\ UNCHANGED <<op, arg, ret, sample_data, collection, selected_deal_id,
                   main_timeline_analysis, main_similar_won,
                   main_comparative_analysis, main_playbook, stage_path, gens,
                   calls>>

\* the deal overview reads lost_deal['value'], a KeyError when the deal has none
ShowOverview ==
    /\ pc = "overview"
    /\ pc' = IF Has(main_lost_deal, "value") THEN "timeline" ELSE "raised"
    /\ UNCHANGED <<op, arg, ret, sample_data, collection, selected_deal_id,
                   main_lost_deal, main_timeline_analysis, main_similar_won,
                   main_comparative_analysis, main_playbook, stage_path, gens,
                   calls>>

TimelineArguments == <<main_lost_deal>>

\* timeline_analysis = timeline_agent.analyze_timeline(lost_deal)
RunTimeline ==
    /\ pc = "timeline"
    /\ \E gen \in Gens(TimelineTexts) :
           LET a == TimelineArguments
               result == analyze_timeline(a[1], gen)
           IN  /\ main_timeline_analysis' =
                      IF result.raised THEN NoneValue ELSE result.value
               /\ pc' = IF result.raised THEN "raised" ELSE "search"
               /\ stage_path' = Put(stage_path, "timeline", result.path)
               /\ gens' = Put(gens, "timeline", gen)
               /\ calls' = Append(calls, [stage |-> "timeline", args |-> a])
    /\ UNCHANGED <<op, arg, ret, sample_data, collection, selected_deal_id,
                   main_lost_deal, main_similar_won, main_comparative_analysis,
                   main_playbook>>

\* similar_won = vector_store.search_similar_deals(lost_deal["company"], "won")
RunSearch ==
    /\ pc = "search"
    /\ \E query_ok \in BOOLEAN :
       \E ranking \in Rankings(collection, "won", DefaultNResults) :
           /\ main_similar_won' = search_similar_deals(
                  collection, main_lost_deal["company"], "won", query_ok, ranking)
           /\ calls' = Append(calls, [stage |-> "search",
                                      args |-> <<main_lost_deal["company"]>>,
                                      query_ok |-> query_ok])
    /\ pc' = "comparative"
    /\ UNCHANGED <<op, arg, ret, sample_data, collection, selected_deal_id,
                   main_lost_deal, main_timeline_analysis,
                   main_comparative_analysis, main_playbook, stage_path, gens>>

ComparativeArguments == <<main_lost_deal, main_similar_won>>

\* comparative_analysis = comparative_agent.compare_with_won_deals(
\*     lost_deal, similar_won)
RunComparative ==
    /\ pc = "comparative"
    /\ \E gen \in Gens(ComparativeTexts) :
           LET a == ComparativeArguments
               result == compare_with_won_deals(a[1], a[2], gen)
               left == compare_with_won_deals_leaves(a[1], a[2], gen)
           IN  /\ main_comparative_analysis' = result.value
               /\ main_lost_deal' = left[1]
               /\ main_similar_won' = left[2]
               /\ pc' = "playbook"
               /\ stage_path' = Put(stage_path, "comparative", result.path)
               /\ gens' = Put(gens, "comparative", gen)
               /\ calls' = Append(calls, [stage |-> "comparative", args |-> a])
    /\ UNCHANGED <<op, arg, ret, sample_data, collection, selected_deal_id,
                   main_timeline_analysis, main_playbook>>

PlaybookArgumentsSwapped ==
    <<main_comparative_analysis, main_timeline_analysis, main_lost_deal>>
PlaybookArguments ==
    <<main_timeline_analysis, main_comparative_analysis, main_lost_deal>>

\* playbook = playbook_agent.generate_playbook(
\*     timeline_analysis, comparative_analysis, lost_deal)
RunPlaybook ==
    /\ pc = "playbook"
    /\ \E gen \in Gens(PlaybookTexts) :
           LET a == PlaybookArguments
               result == generate_playbook(a[1], a[2], a[3], gen)
               left == generate_playbook_leaves(a[1], a[2], a[3], gen)
           IN  /\ main_playbook' = IF result.raised THEN NoneValue ELSE result.value
               /\ main_timeline_analysis' = left[1]
               /\ main_comparative_analysis' = left[2]
               /\ main_lost_deal' = left[3]
               /\ pc' = IF result.raised THEN "raised" ELSE "done"
               /\ stage_path' = Put(stage_path, "playbook", result.path)
               /\ gens' = Put(gens, "playbook", gen)
               /\ calls' = Append(calls, [stage |-> "playbook", args |-> a])
    /\ UNCHANGED <<op, arg, ret, sample_data, collection, selected_deal_id,
                   main_similar_won>>

Next ==
    \/ StoreDeals
    \/ SelectDeal
    \/ LookupDeal
    \/ ShowOverview
    \/ RunTimeline
    \/ RunSearch
    \/ RunComparative
    \/ RunPlaybook

Spec == Init /\ [][Next]_vars

-----------------------------------------------------------------------------
(* Inputs of the pure-function specifications *)

Industries == {"tech", "retail"}
Values == {0, 50, 60, 100}
CompetitorLists == {<<>>, <<"ABC">>, <<"XYZ">>, <<"XYZ", "ABC">>}

\* deals as the matcher reads them: industry, value and competitors are optional
MatcherDeals ==
    LET full == {[industry |-> i, value |-> v, competitors |-> c] :
                    i \in Industries, v \in Values, c \in CompetitorLists}
        noIndustry == {[value |-> v, competitors |-> c] :
                    v \in Values, c \in CompetitorLists}
        noValue == {[industry |-> i, competitors |-> c] :
                    i \in Industries, c \in CompetitorLists}
        noCompetitors == {[industry |-> i, value |-> v] :
                    i \in Industries, v \in Values}
    IN  full \cup noIndustry \cup noValue \cup noCompetitors

RankLostDeal == [industry |-> "tech", value |-> 100, competitors |-> <<"ABC">>]

\* won deals scoring 1.0, 0.7, 0.7, 0.6, 0.4, 0.3, 0.3 and 0 against RankLostDeal
RankWonDeals ==
    {[deal_id |-> "W1", industry |-> "tech", value |-> 60, competitors |-> <<"ABC">>],
     [deal_id |-> "W2", industry |-> "tech", value |-> 60, competitors |-> <<"XYZ">>],
     [deal_id |-> "W3", industry |-> "tech", value |-> 50, competitors |-> <<"XYZ", "ABC">>],
     [deal_id |-> "W4", industry |-> "retail", value |-> 100, competitors |-> <<"ABC">>],
     [deal_id |-> "W5", industry |-> "tech", value |-> 0, competitors |-> <<>>],
     [deal_id |-> "W6", industry |-> "retail", value |-> 60, competitors |-> <<>>],
     [deal_id |-> "W7", industry |-> "retail", value |-> 50, competitors |-> <<"ABC">>],
     [deal_id |-> "W8", industry |-> "retail", value |-> 0, competitors |-> <<"XYZ">>]}

MetricEvents ==
    {Event(d, e, Txt.ok) : d \in 0..MaxDay, e \in {Txt.demo, Txt.call}}
    \cup {Event(d, Txt.call, Txt.competitor_budget) : d \in 0..MaxDay}

MetricDeals ==
    {[deal_id |-> "L1", company |-> "Acme", timeline |-> t] :
        t \in SeqsUpTo(MetricEvents, MaxEvents)}
    \cup {[deal_id |-> "L1", company |-> "Acme"]}

NoRet == NoneValue

-----------------------------------------------------------------------------
(* SpecSimilarity: _calculate_deal_similarity on every pair of deals *)

InitSimilarity ==
    /\ op = "none"
    /\ arg \in [deal1 : MatcherDeals, deal2 : MatcherDeals]
    /\ ret = NoRet
    /\ RunOff

CalcSimilarity ==
    /\ op = "none"
    /\ op' = "similarity"
    /\ ret' = [ab |-> calculate_deal_similarity(arg.deal1, arg.deal2),
               ba |-> calculate_deal_similarity(arg.deal2, arg.deal1)]
    /\ UNCHANGED arg
    /\ UNCHANGED run_vars

NextSimilarity == CalcSimilarity

SpecSimilarity == InitSimilarity /\ [][NextSimilarity]_vars

-----------------------------------------------------------------------------
(* SpecRanking: get_won_deals_for_comparison on a corpus of won deals *)

InitRanking ==
    /\ op = "none"
    /\ arg \in [sample : {[won_deals |-> w] : w \in SeqsUpTo(RankWonDeals, MaxWon)}
                         \cup {[lost_deals |-> <<>>]},
                lost_deal : {RankLostDeal},
                n : 0..MaxN]
    /\ ret = NoRet
    /\ RunOff

GetWonDeals ==
    /\ op = "none"
    /\ op' = "won_deals"
    /\ ret' = [deals |-> get_won_deals_for_comparison(arg.sample, arg.lost_deal, arg.n),
               ranked |-> RankedSimilar(arg.sample, arg.lost_deal, arg.n)]
    /\ UNCHANGED arg
    /\ UNCHANGED run_vars

\* the call without n: def get_won_deals_for_comparison(self, lost_deal, n=2)
GetWonDealsDefault ==
    /\ op = "none"
    /\ op' = "won_deals_default"
    /\ ret' = [deals |-> get_won_deals_for_comparison(arg.sample, arg.lost_deal, DefaultN),
               ranked |-> RankedSimilar(arg.sample, arg.lost_deal, DefaultN)]
    /\ UNCHANGED arg
    /\ UNCHANGED run_vars

NextRanking == GetWonDeals \/ GetWonDealsDefault

SpecRanking == InitRanking /\ [][NextRanking]_vars

-----------------------------------------------------------------------------
(* SpecMetrics: extract_timeline_metrics on every timeline *)

InitMetrics ==
    /\ op = "none"
    /\ arg \in [deal : MetricDeals]
    /\ ret = NoRet
    /\ RunOff

ExtractMetrics ==
    /\ op = "none"
    /\ op' = "metrics"
    /\ ret' = extract_timeline_metrics(arg.deal)
    /\ UNCHANGED arg
    /\ UNCHANGED run_vars

NextMetrics == ExtractMetrics

SpecMetrics == InitMetrics /\ [][NextMetrics]_vars

-----------------------------------------------------------------------------
(* SpecPrepare: prepare_deal_for_analysis and extract_timeline_metrics on the *)
(* deals of a corpus, deals with an empty or an absent timeline among them    *)

NoTimelineDeal ==
    [deal_id |-> "L1", company |-> "Acme", industry |-> "tech", value |-> 50000]

PrepareCorpora ==
    {[lost_deals |-> l, won_deals |-> w] :
        l \in SeqsUpTo(RunLostDeals \cup {NoTimelineDeal}, 1),
        w \in SeqsUpTo(RunWonDeals, MaxPipelineWon)}

InitPrepare ==
    /\ op = "none"
    /\ sample_data \in PrepareCorpora
    /\ arg \in {[deal_id |-> i, deal |-> d] :
                   i \in {"L1", "L9"},
                   d \in Range(sample_data["lost_deals"]) \cup {NoTimelineDeal}}
    /\ ret = NoRet
    /\ collection = <<>>
    /\ pc = "off"
    /\ selected_deal_id = NoneId
    /\ main_lost_deal = NoneValue
    /\ main_timeline_analysis = NoneValue
    /\ main_similar_won = NoneValue
    /\ main_comparative_analysis = NoneValue
    /\ main_playbook = NoneValue
    /\ stage_path = EmptyDict
    /\ gens = EmptyDict
    /\ calls = <<>>

PrepareDeal ==
    /\ op = "none"
    /\ op' = "prepare"
    /\ ret' = prepare_deal_for_analysis(sample_data, arg.deal_id).ret
    /\ sample_data' = prepare_deal_for_analysis(sample_data, arg.deal_id).sample
    /\ UNCHANGED <<arg, collection, pc, selected_deal_id, main_lost_deal,
                   main_timeline_analysis, main_similar_won,
                   main_comparative_analysis, main_playbook, stage_path, gens,
                   calls>>

NextPrepare ==
    \/ PrepareDeal
    \/ ExtractMetrics

SpecPrepare == InitPrepare /\ [][NextPrepare]_vars

-----------------------------------------------------------------------------
(* SpecLoad: DataProcessor() on a data file, then prepare_deal_for_analysis *)

\* utils/helpers.py validate_deal_data; the deals here are all dicts and their
\* timelines lists, so the two isinstance tests pass
validate_deal_data(deal_data) ==
    LET required_fields == <<"deal_id", "company", "timeline">>
        missing_fields == SelectSeq(required_fields, LAMBDA f : ~Has(deal_data, f))
        timeline == Get(deal_data, "timeline", <<>>)
    IN  IF missing_fields # <<>>
        THEN [ok |-> FALSE, message |-> "Missing required fields"]
        ELSE IF \E i \in DOMAIN timeline :
                    ~({"day", "event", "details"} \subseteq DOMAIN timeline[i])
             THEN [ok |-> FALSE,
                   message |-> "Each timeline event must have 'day', 'event', and 'details'"]
             ELSE [ok |-> TRUE, message |-> "Deal data is valid"]

\* _load_sample_data: the parsed document as it is, or the exception of a
\* missing file or of text that is not JSON
load_sample_data(file) ==
    IF ~file.exists THEN Raise("FileNotFoundError")
    ELSE IF ~file.well_formed THEN Raise("ValueError")
         ELSE Ok(file.document)

NoDetailsDeal ==
    [deal_id |-> "L1", company |-> "Acme", industry |-> "tech", value |-> 50000,
     timeline |-> <<[day |-> 0, event |-> Txt.call],
                    [day |-> 2, event |-> Txt.demo]>>]

NoCompanyDeal ==
    [deal_id |-> "L1", industry |-> "tech", value |-> 50000,
     timeline |-> <<Event(0, Txt.call, Txt.ok)>>]

LoadFiles ==
    {[exists |-> e, well_formed |-> w, document |-> [lost_deals |-> l, won_deals |-> v]] :
        e \in BOOLEAN, w \in BOOLEAN,
        l \in SeqsUpTo(RunLostDeals
                       \cup {NoTimelineDeal, NoDetailsDeal, NoCompanyDeal}, 1),
        v \in SeqsUpTo(RunWonDeals, MaxPipelineWon)}

InitLoad ==
    /\ op = "none"
    /\ arg \in LoadFiles
    /\ ret = NoRet
    /\ sample_data = NoneValue
    /\ collection = <<>>
    /\ pc = "off"
    /\ selected_deal_id = NoneId
    /\ main_lost_deal = NoneValue
    /\ main_timeline_analysis = NoneValue
    /\ main_similar_won = NoneValue
    /\ main_comparative_analysis = NoneValue
    /\ main_playbook = NoneValue
    /\ stage_path = EmptyDict
    /\ gens = EmptyDict
    /\ calls = <<>>

\* data_processor = DataProcessor()
LoadSampleData ==
    /\ op = "none"
    /\ op' = "load"
    /\ ret' = load_sample_data(arg)
    /\ sample_data' = IF load_sample_data(arg).ok
                      THEN load_sample_data(arg).value ELSE NoneValue
    /\ UNCHANGED <<arg, collection, pc, selected_deal_id, main_lost_deal,
                   main_timeline_analysis, main_similar_won,
                   main_comparative_analysis, main_playbook, stage_path, gens,
                   calls>>

\* data_processor.prepare_deal_for_analysis(deal_id) on the loaded corpus
LoadPrepare ==
    /\ op = "load"
    /\ sample_data # NoneValue
    /\ op' = "prepare"
    /\ \E deal_id \in {"L1", "L9"} :
           /\ ret' = prepare_deal_for_analysis(sample_data, deal_id).ret
           /\ sample_data' = prepare_deal_for_analysis(sample_data, deal_id).sample
    /\ UNCHANGED <<arg, collection, pc, selected_deal_id, main_lost_deal,
                   main_timeline_analysis, main_similar_won,
                   main_comparative_analysis, main_playbook, stage_path, gens,
                   calls>>

NextLoad ==
    \/ LoadSampleData
    \/ LoadPrepare

SpecLoad == InitLoad /\ [][NextLoad]_vars

-----------------------------------------------------------------------------
(* SpecParse: the parse step of each stage on response texts of known shape *)

ObjectTexts ==
    {<<"{", "}">>,
     <<"{", "m_score", "}">>,
     <<"{", "m_fp_obj", "\n", " ", "m_score", "}">>,
     <<"{", "m_impr", "m_actions", "}">>,
     <<"{">> \o NoteSpelled \o <<"m_score", "}">>}

PlainBlock == Fence \o <<"\n", "x", "\n">> \o Fence \o <<"\n">>

\* texts that hold a fenced block tagged json whose content is a valid object
JsonFenceInputs ==
    {[kind |-> "json_fence",
      text |-> before \o FenceJson \o <<"\n">> \o object \o <<"\n">> \o Fence
               \o after,
      embedded |-> JsonLoads(object).value] :
        before \in {<<>>, Prose, PlainBlock, Prose \o <<"{", "m_marker", "}", "\n">>},
        object \in ObjectTexts,
        after \in {<<>>, <<"\n">> \o Prose, <<"\n">> \o PlainBlock \o <<"}">>}}

PadTo(text, n) == text \o [i \in 1..(n - Len(text)) |-> "x"]

\* texts that cannot be parsed: no brace, only an opening or only a closing
\* brace, malformed JSON between the braces; short, of exactly TruncateLimit
\* characters and longer
UnparsableInputs ==
    {[kind |-> "unparsable", text |-> PadTo(text, n), embedded |-> NoneValue] :
        text \in {Prose,
                  Prose \o <<"{", "m_score">>,
                  <<"m_score", "}", "\n">> \o Prose,
                  <<"{", "m_score", "?", "}">> \o Prose,
                  <<"}", "m_score", "{">>,
                  Fence \o <<"{", "m_score">>},
        n \in {0, TruncateLimit - 1, TruncateLimit, TruncateLimit + 1,
               TruncateLimit + MaxOverrun}}

ParseStep(stage, response_text) ==
    CASE stage = "timeline" -> parse_analysis_response(response_text)
      [] stage = "comparative" -> parse_comparative_response(response_text)
      [] stage = "playbook" -> parse_playbook_response(response_text)

ParseFallback(stage, response_text) ==
    CASE stage = "timeline" -> create_structured_fallback(response_text)
      [] stage = "comparative" -> create_comparative_fallback(response_text)
      [] stage = "playbook" -> create_playbook_fallback(response_text)

InitParse ==
    /\ op = "none"
    /\ arg \in {[stage |-> stage, input |-> input] :
                   stage \in Stages, input \in JsonFenceInputs \cup UnparsableInputs}
    /\ ret = NoRet
    /\ RunOff

ParseResponse ==
    /\ op = "none"
    /\ op' = "parse"
    /\ ret' = ParseStep(arg.stage, arg.input.text)
    /\ UNCHANGED arg
    /\ UNCHANGED run_vars

NextParse == ParseResponse

SpecParse == InitParse /\ [][NextParse]_vars

-----------------------------------------------------------------------------
(* SpecStore: store_deals called repeatedly with one corpus on a collection  *)
(* that may hold an earlier population, each collaborator call succeeding or *)
(* failing; get_all_deals in between                                         *)

StoreLostDeals ==
    {[deal_id |-> "L1", company |-> "Acme", loss_reason |-> "price",
      timeline |-> <<Event(0, Txt.call, Txt.ok)>>]}

StoreWonDeals ==
    RunWonDeals
    \cup {[deal_id |-> "W2", company |-> "Hooli",
           timeline |-> <<Event(1, Txt.demo, Txt.ok)>>]}

\* deal_id is the natural key of the dataset: no two deals of a kind share it
StoreCorpora ==
    {[lost_deals |-> l, won_deals |-> w] :
        l \in SeqsUpTo(StoreLostDeals, 1),
        w \in {s \in SeqsUpTo(StoreWonDeals, MaxStoreWon) :
                  \A i, j \in DOMAIN s : i # j => s[i]["deal_id"] # s[j]["deal_id"]}}

InitStore ==
    /\ op = "none"
    /\ arg = NoneValue
    /\ ret = NoRet
    /\ sample_data \in StoreCorpora
    /\ collection \in {<<>>, EarlierPopulation}
    /\ pc = "off"
    /\ selected_deal_id = NoneId
    /\ main_lost_deal = NoneValue
    /\ main_timeline_analysis = NoneValue
    /\ main_similar_won = NoneValue
    /\ main_comparative_analysis = NoneValue
    /\ main_playbook = NoneValue
    /\ stage_path = EmptyDict
    /\ gens = EmptyDict
    /\ calls = <<>>

\* vector_store.store_deals(sample_data), once more
StoreAgain ==
    /\ Len(calls) < MaxStoreCalls
    /\ \E get_ok, delete_ok, add_ok \in BOOLEAN :
           LET stored == store_deals(collection, sample_data,
                                     get_ok, delete_ok, add_ok)
           IN  /\ collection' = stored.collection
               /\ op' = "store"
               /\ ret' = [ok |-> stored.ok]
               /\ calls' = Append(calls,
                      [stage |-> "store",
                       args |-> <<get_ok, delete_ok, add_ok>>,
                       ok |-> stored.ok,
                       before |-> collection,
                       after |-> stored.collection])
    /\ UNCHANGED <<arg, sample_data, pc, selected_deal_id, main_lost_deal,
                   main_timeline_analysis, main_similar_won,
                   main_comparative_analysis, main_playbook, stage_path, gens>>

\* vector_store.get_all_deals()
GetAllDeals ==
    /\ \E get_ok \in BOOLEAN, deal_type \in {NoneId, "lost", "won"} :
           /\ op' = "get_all"
           /\ arg' = [deal_type |-> deal_type, get_ok |-> get_ok]
           /\ ret' = get_all_deals(collection, deal_type, get_ok)
    /\ UNCHANGED run_vars

NextStore ==
    \/ StoreAgain
    \/ GetAllDeals

SpecStore == InitStore /\ [][NextStore]_vars

-----------------------------------------------------------------------------
(* SpecFallback: the Timeline stage's _get_fallback_analysis on every deal *)

FallbackEvents ==
    {Event(0, Txt.call, Txt.ok),
     Event(1, Txt.demo, Txt.competitor_budget),
     Event(2, Txt.follow_up, Txt.ghosted),
     Event(3, Txt.call, Txt.pricing_delay)}

FallbackDeals ==
    {[deal_id |-> "L1", company |-> "Acme", timeline |-> t] :
        t \in SeqsUpTo(FallbackEvents, MaxFallbackTimeline)}

InitFallback ==
    /\ op = "none"
    /\ arg \in [deal : FallbackDeals]
    /\ ret = NoRet
    /\ RunOff

FallbackAnalysis ==
    /\ op = "none"
    /\ op' = "fallback"
    /\ ret' = get_fallback_analysis(arg.deal)
    /\ UNCHANGED arg
    /\ UNCHANGED run_vars

NextFallback == FallbackAnalysis

SpecFallback == InitFallback /\ [][NextFallback]_vars

-----------------------------------------------------------------------------
(* Claims about the similarity matcher and the metrics extractor *)

Bit(b) == IF b THEN 1 ELSE 0

\* C7: for every pair of deals _calculate_deal_similarity returns
\* 0.4*[industry fields equal] + 0.3*[both values > 0 and min/max > 0.5 strictly]
\* + 0.3*[competitor lists share an element]; the result lies in [0, 1], and a
\* value ratio of exactly 0.5 or a zero value contributes nothing.
C7_SimilarityIsWeightedSum ==
    op = "similarity" =>
        LET d1 == arg.deal1
            d2 == arg.deal2
            v1 == IF Has(d1, "value") THEN d1.value ELSE 0
            v2 == IF Has(d2, "value") THEN d2.value ELSE 0
            sameIndustry ==
                \/ Has(d1, "industry") /\ Has(d2, "industry") /\ d1.industry = d2.industry
                \/ ~Has(d1, "industry") /\ ~Has(d2, "industry")
            closeValue == v1 > 0 /\ v2 > 0 /\ 2 * Min2(v1, v2) > Max2(v1, v2)
            shared ==
                /\ Has(d1, "competitors") /\ Has(d2, "competitors")
                /\ \E i \in DOMAIN d1.competitors : \E j \in DOMAIN d2.competitors :
                       d1.competitors[i] = d2.competitors[j]
        IN  /\ ret.ab = 4 * Bit(sameIndustry) + 3 * Bit(closeValue) + 3 * Bit(shared)
            /\ ret.ab \in 0..10
            /\ (v1 = 0 \/ v2 = 0 \/ 2 * Min2(v1, v2) = Max2(v1, v2))
                   => ret.ab = 4 * Bit(sameIndustry) + 3 * Bit(shared)

\* a pair with value ratio exactly 0.5, same industry and a shared competitor: 0.7
C7_Witness ==
    /\ op = "similarity"
    /\ Has(arg.deal1, "value") /\ Has(arg.deal2, "value")
    /\ arg.deal1.value = 50 /\ arg.deal2.value = 100
    /\ ret.ab = 7

\* C8: get_won_deals_for_comparison returns exactly the first N of the won deals
\* scoring strictly above 0.3, ordered by descending score with ties in corpus
\* order: never a deal scoring <= 0.3, never more than N deals (default 2), and
\* the empty list when no candidate passes.
C8_TopNOfStableRanking ==
    op \in {"won_deals", "won_deals_default"} =>
        LET won == IF Has(arg.sample, "won_deals") THEN arg.sample.won_deals ELSE <<>>
            n == IF op = "won_deals" THEN arg.n ELSE 2
            score(i) == calculate_deal_similarity(arg.lost_deal, won[i])
            candidates == {i \in DOMAIN won : score(i) > 3}
            Before(i, j) == score(i) > score(j) \/ (score(i) = score(j) /\ i < j)
            picked == {ret.ranked[k].idx : k \in DOMAIN ret.ranked}
        IN  /\ Len(ret.deals) = Min2(n, Cardinality(candidates))
            /\ Len(ret.ranked) = Len(ret.deals)
            /\ picked \subseteq candidates
            /\ \A k \in DOMAIN ret.deals : ret.deals[k] = won[ret.ranked[k].idx]
            /\ \A k \in 1..(Len(ret.ranked) - 1) :
                   Before(ret.ranked[k].idx, ret.ranked[k + 1].idx)
            /\ \A c \in candidates \ picked : \A i \in picked : Before(i, c)
            /\ (candidates = {} => ret.deals = <<>>)

\* three candidates, two of them tied, and only the first two returned
C8_Witness ==
    /\ op = "won_deals"
    /\ arg.n = 2
    /\ Len(ret.deals) = 2
    /\ ret.ranked[1].score = ret.ranked[2].score
    /\ Cardinality({i \in DOMAIN arg.sample.won_deals :
           calculate_deal_similarity(arg.lost_deal, arg.sample.won_deals[i]) > 3}) = 3

\* C9: the similarity score is symmetric: _calculate_deal_similarity(A, B)
\* equals _calculate_deal_similarity(B, A) for every two deals A and B.
C9_SimilaritySymmetric ==
    op = "similarity" => ret.ab = ret.ba

\* two different deals whose values differ and whose value term counts
C9_Witness ==
    /\ op = "similarity"
    /\ Has(arg.deal1, "value") /\ Has(arg.deal2, "value")
    /\ arg.deal1.value = 60 /\ arg.deal2.value = 100
    /\ ret.ab = 3 /\ ret.ba = 3

MetricsTimeline == IF Has(arg.deal, "timeline") THEN arg.deal.timeline ELSE <<>>

MetricsDiffs ==
    [i \in 1..(Len(MetricsTimeline) - 1) |->
        MetricsTimeline[i + 1].day - MetricsTimeline[i].day]

\* with two or more events: avg is the mean of the consecutive differences and
\* max their largest
GapFieldsOfTwoOrMore ==
    Len(MetricsTimeline) >= 2 =>
        /\ Has(ret, "avg_response_gap_days") /\ Has(ret, "max_response_gap_days")
        /\ ret.avg_response_gap_days.den > 0
        /\ ret.avg_response_gap_days.num * Len(MetricsDiffs)
               = ret.avg_response_gap_days.den * SumSeq(MetricsDiffs)
        /\ \E i \in DOMAIN MetricsDiffs : MetricsDiffs[i] = ret.max_response_gap_days
        /\ \A i \in DOMAIN MetricsDiffs : MetricsDiffs[i] <= ret.max_response_gap_days

GapFieldsAreZero ==
    /\ Has(ret, "avg_response_gap_days") /\ Has(ret, "max_response_gap_days")
    /\ ret.avg_response_gap_days.num = 0 /\ ret.avg_response_gap_days.den > 0
    /\ ret.max_response_gap_days = 0

\* C10 as stated: with at least 2 events avg_response_gap_days is the sum of
\* the consecutive day differences divided by their count and
\* max_response_gap_days the largest of them; with 0 or 1 events both are 0.
C10_AsStated ==
    op = "metrics" =>
        /\ GapFieldsOfTwoOrMore
        /\ Len(MetricsTimeline) <= 1 => GapFieldsAreZero

\* C10 (amended): with at least 2 events avg_response_gap_days is the sum of the
\* consecutive day differences divided by their count and max_response_gap_days
\* the largest of them; with exactly 1 event both are 0; with no event the
\* function returns the empty record, which has neither field; no division has
\* a zero divisor.
C10_GapMetrics ==
    op = "metrics" =>
        /\ GapFieldsOfTwoOrMore
        /\ Len(MetricsTimeline) = 1 => GapFieldsAreZero
        /\ Len(MetricsTimeline) = 0 => DOMAIN ret = {}

\* three events out of day order, with a mean that is no integer
C10_Witness ==
    /\ op = "metrics"
    /\ Len(MetricsTimeline) = 3
    /\ MetricsDiffs = <<3, -2>>
    /\ ret.avg_response_gap_days = [num |-> 1, den |-> 2]
    /\ ret.max_response_gap_days = 3

\* C11: in every metrics record extract_timeline_metrics returns,
\* timeline_density is number_of_events / total_duration_days when
\* total_duration_days > 0 and exactly 0 when total_duration_days is 0 (all
\* events on one day); total_duration_days is never negative and no division
\* has a zero divisor.
C11_DensityIsEventsPerDay ==
    (op = "metrics" /\ Has(ret, "total_duration_days")) =>
        /\ Has(ret, "timeline_density") /\ Has(ret, "number_of_events")
        /\ ret.total_duration_days >= 0
        /\ ret.number_of_events = Len(MetricsTimeline)
        /\ ret.timeline_density.den > 0
        /\ ret.total_duration_days > 0 =>
               ret.timeline_density.num * ret.total_duration_days
                   = ret.timeline_density.den * ret.number_of_events
        /\ ret.total_duration_days = 0 => ret.timeline_density.num = 0

\* three events within two days, out of day order: density 3/2
C11_Witness ==
    /\ op = "metrics"
    /\ Len(MetricsTimeline) = 3
    /\ MetricsTimeline[1].day = 2 /\ MetricsTimeline[2].day = 0
    /\ ret.total_duration_days = 2
    /\ ret.timeline_density = [num |-> 3, den |-> 2]

MentionsKeyword(text) == \E kw \in CriticalKeywords : Contains(Lower(text), kw)

\* C12: critical_events_count equals the number of timeline events whose event
\* label or whose details text contains, case-insensitively, one of the
\* keywords proposal, demo, pricing, competitor, budget.
C12_CountsLabelOrDetails ==
    (op = "metrics" /\ Has(ret, "critical_events_count")) =>
        ret.critical_events_count =
            Cardinality({i \in DOMAIN MetricsTimeline :
                            \/ MentionsKeyword(MetricsTimeline[i].event)
                            \/ MentionsKeyword(MetricsTimeline[i].details)})

NoEvents(deal) == ~Has(deal, "timeline") \/ deal["timeline"] = <<>>

\* C13: metrics extraction on a deal whose timeline is empty or absent returns
\* the no-data sentinel (the empty record) and does not raise, in
\* extract_timeline_metrics and in prepare_deal_for_analysis, which returns the
\* deal with that sentinel as its metrics and with its similar won deals.
C13_NoDataSentinel ==
    /\ (op = "metrics" /\ NoEvents(arg.deal)) => ret = EmptyDict
    /\ op = "prepare" =>
           IF get_lost_deal_by_id(sample_data, arg.deal_id) = NoneValue
           THEN ret = NoneValue
           ELSE /\ ret = get_lost_deal_by_id(sample_data, arg.deal_id)
                /\ Has(ret, "metrics") /\ Has(ret, "similar_won_deals")
                /\ NoEvents(ret) => ret["metrics"] = EmptyDict
                /\ ~NoEvents(ret) => ret["metrics"]["number_of_events"]
                                         = Len(ret["timeline"])

\* prepare_deal_for_analysis of a deal without a timeline field, in a corpus
\* with a won deal that resembles it
C13_Witness ==
    /\ op = "prepare"
    /\ ret # NoneValue
    /\ ~Has(ret, "timeline")
    /\ ret["metrics"] = EmptyDict
    /\ Len(ret["similar_won_deals"]) = 1

-----------------------------------------------------------------------------
(* Claims about the run of main() and its three stages *)

StageResult(s) ==
    CASE s = "timeline" -> main_timeline_analysis
      [] s = "comparative" -> main_comparative_analysis
      [] s = "playbook" -> main_playbook

MarkerKey(s) == IF s = "playbook" THEN "fallback_playbook" ELSE "fallback_analysis"

HasMarker(s) ==
    /\ Has(StageResult(s), MarkerKey(s))
    /\ StageResult(s)[MarkerKey(s)].t = "bool"
    /\ StageResult(s)[MarkerKey(s)].v

\* C1: for every deal that passes schema validation (empty timeline and empty
\* competitors list included) and every generation outcome per stage, none of
\* the three stages raises, so a run that starts the stages ends with a
\* Timeline, a Comparative and a Playbook result.
C1_NoStageRaises ==
    \A s \in DOMAIN stage_path : stage_path[s] # "raised"

\* C2: when the generation call of a stage fails, the stage returns its
\* rule-based fallback record, carrying the stage's fallback marker set to
\* true; for the Timeline stage that record has timeline_score 6.
C2_GenerationFailureGivesRuleFallback ==
    \A s \in DOMAIN gens :
        ~gens[s].ok =>
            /\ stage_path[s] = "rule_fallback"
            /\ HasMarker(s)
            /\ s = "timeline" => StageResult(s)["timeline_score"] = JNum(6)

\* C3: a stage returns its rule-based fallback record only when the generation
\* call itself failed: whenever the call returns text, whatever the text, the
\* stage returns the parsed-and-enhanced record or the parse-fallback record.
C3_RuleFallbackOnlyOnGenerationFailure ==
    \A s \in DOMAIN gens :
        gens[s].ok => stage_path[s] # "rule_fallback"

LinearOrder == <<"timeline", "search", "comparative", "playbook">>

\* C4: in one run the stages execute in the order Timeline, won-deal search,
\* Comparative, Playbook, each invoked at most once and exactly once in a run
\* that ends; the Comparative stage receives the search result, and the
\* Playbook stage receives exactly the Timeline result and the Comparative
\* result produced earlier in the same run.
C4_LinearStageOrder ==
    /\ Len(calls) <= Len(LinearOrder)
    /\ \A i \in DOMAIN calls : calls[i].stage = LinearOrder[i]
    /\ pc = "done" => Len(calls) = Len(LinearOrder)
    /\ \A i \in DOMAIN calls :
           /\ calls[i].stage = "timeline" => calls[i].args = <<main_lost_deal>>
           /\ calls[i].stage = "comparative" =>
                  /\ calls[i].args = <<main_lost_deal, main_similar_won>>
                  /\ calls[i - 1].stage = "search"
           /\ calls[i].stage = "playbook" =>
                  /\ Len(calls[i].args) = 3
                  /\ calls[i].args[1] =
                         analyze_timeline(main_lost_deal, gens["timeline"]).value
                  /\ calls[i].args[2] =
                         compare_with_won_deals(main_lost_deal, main_similar_won,
                                                gens["comparative"]).value
                  /\ calls[i].args[3] = main_lost_deal

\* a finished run whose three generation calls all answered parsable text
C4_Witness ==
    /\ pc = "done"
    /\ Len(calls) = 4
    /\ \A s \in Stages : stage_path[s] = "parsed"
    /\ Len(main_similar_won["documents"][1]) = 2

\* C5: every stage result produced by local heuristics (rule-based fallback and
\* parse-fallback) carries a fallback marker set to true, and no stage result
\* built from the collaborator's parsed output carries it.
C5_MarkerTellsHeuristicFromGenerated ==
    \A s \in DOMAIN stage_path :
        /\ stage_path[s] \in {"rule_fallback", "parse_fallback"} => HasMarker(s)
        /\ stage_path[s] = "parsed" => ~HasMarker(s)

ScenarioDeal(d) ==
    /\ d # NoneValue
    /\ d["timeline"] = ScenarioTimeline
    /\ Has(d, "value") /\ d["value"] = 50000
    /\ Has(d, "competitors") => d["competitors"] # <<>>

\* C6: for the lost deal with value 50000 and the timeline (0, Initial Contact),
\* (5, Demo), (12, Follow-up), with generation failing at every stage, the run
\* yields a Timeline result with failure_point.day = 12, exactly two
\* response_time_issues with delay_days 5 and 7, and timeline_score = 6; a
\* Comparative fallback result without error; and a Playbook result whose
\* immediate_actions holds an entry with priority 'high'.
C6_ScenarioAllFallbacks ==
    ScenarioDeal(main_lost_deal) /\ (\A s \in DOMAIN gens : ~gens[s].ok) =>
        /\ pc # "raised"
        /\ "timeline" \in DOMAIN gens =>
               LET t == main_timeline_analysis
                   issues == t["response_time_issues"].v
               IN  /\ stage_path["timeline"] = "rule_fallback"
                   /\ t["failure_point"].v["day"] = JNum(12)
                   /\ Len(issues) = 2
                   /\ issues[1].v["delay_days"] = JNum(5)
                   /\ issues[2].v["delay_days"] = JNum(7)
                   /\ t["timeline_score"] = JNum(6)
        /\ "comparative" \in DOMAIN gens =>
               /\ stage_path["comparative"] = "rule_fallback"
               /\ HasMarker("comparative")
        /\ "playbook" \in DOMAIN gens =>
               /\ stage_path["playbook"] = "rule_fallback"
               /\ \E i \in DOMAIN main_playbook["immediate_actions"].v :
                      main_playbook["immediate_actions"].v[i].v["priority"]
                          = JLit("high")

\* the scenario deal, as the claim gives it (no competitors field), run to the
\* end with the three generation calls failing
C6_Witness ==
    /\ pc = "done"
    /\ ScenarioDeal(main_lost_deal)
    /\ ~Has(main_lost_deal, "competitors")
    /\ DOMAIN gens = Stages
    /\ \A s \in Stages : ~gens[s].ok

EnhancedTimeline ==
    /\ "timeline" \in DOMAIN stage_path
    /\ stage_path["timeline"] \in {"parsed", "parse_fallback"}

\* C14: after the Timeline stage's enhance step, for every timeline (any
\* length, any day order) and whatever numbers the generated text holds, the
\* result's total_duration_days, avg_response_days, max_response_gap and
\* timeline_density are present and equal the metrics extractor's
\* total_duration_days, avg_response_gap_days, max_response_gap_days and
\* timeline_density for the same deal.
C14_EnhancedEqualsExtractor ==
    EnhancedTimeline =>
        LET a == main_timeline_analysis
            m == extract_timeline_metrics(main_lost_deal)
        IN  /\ DOMAIN m # {}
            /\ Has(a, "total_duration_days") /\ Has(a, "avg_response_days")
            /\ Has(a, "max_response_gap") /\ Has(a, "timeline_density")
            /\ a["total_duration_days"] = JNum(m["total_duration_days"])
            /\ a["avg_response_days"] = JFloat(m["avg_response_gap_days"])
            /\ a["max_response_gap"] = JNum(m["max_response_gap_days"])
            /\ a["timeline_density"] = JFloat(m["timeline_density"])

-----------------------------------------------------------------------------
(* Claims about the parse step *)

\* C15: for raw text that holds a fenced block tagged json whose content is a
\* valid JSON object, each stage's parse step returns exactly that object (the
\* tagged block wins over other fenced blocks and over surrounding prose) and
\* produces no parse-fallback record.
C15_JsonFenceGivesEmbeddedObject ==
    (op = "parse" /\ arg.input.kind = "json_fence") =>
        /\ ret = arg.input.embedded
        /\ ~Has(ret, "raw_response")

WithoutRaw(record) == [k \in DOMAIN record \ {"raw_response"} |-> record[k]]

IsParseFallback ==
    /\ Has(ret, "raw_response")
    /\ WithoutRaw(ret) = WithoutRaw(ParseFallback(arg.stage, <<>>))

FirstChars(text, n) == SubSeq(text, 1, Min2(n, Len(text)))

\* C16 as stated: for raw text that cannot be parsed each stage's parse step
\* returns its parse-fallback record, whose raw_response equals the first 500
\* characters of the raw text, or the whole raw text when it has 500 or fewer.
C16_AsStated ==
    (op = "parse" /\ arg.input.kind = "unparsable") =>
        /\ IsParseFallback
        /\ ret["raw_response"] = JStr(FirstChars(arg.input.text, TruncateLimit))

\* C16 (amended): for raw text that cannot be parsed each stage's parse step
\* returns its parse-fallback record, whose raw_response is the whole raw text
\* when it has 500 or fewer characters, and otherwise its first 500 characters
\* followed by three dots.
C16_RawResponseTruncated ==
    (op = "parse" /\ arg.input.kind = "unparsable") =>
        /\ IsParseFallback
        /\ Len(arg.input.text) <= TruncateLimit =>
               ret["raw_response"] = JStr(arg.input.text)
        /\ Len(arg.input.text) > TruncateLimit =>
               ret["raw_response"] =
                   JStr(FirstChars(arg.input.text, TruncateLimit)
                        \o <<".", ".", ".">>)

\* a text one character longer than the cut, with only an opening brace
C16_Witness ==
    /\ op = "parse"
    /\ arg.input.kind = "unparsable"
    /\ Len(arg.input.text) = TruncateLimit + 1
    /\ Contains(arg.input.text, <<"{">>) /\ ~Contains(arg.input.text, <<"}">>)
    /\ Len(ret["raw_response"].v) = TruncateLimit + 3

-----------------------------------------------------------------------------
(* Claims about the population of the index *)

CorpusSize == Len(sample_data["lost_deals"]) + Len(sample_data["won_deals"])

CollaboratorWorked(call) == call.args = <<TRUE, TRUE, TRUE>>

\* the index holds exactly one record per deal of the corpus and nothing else
HoldsExactlyCorpus(held) ==
    /\ Len(held) = CorpusSize
    /\ Range(held) = Range(NewRecords(sample_data))
    /\ \A i, j \in DOMAIN held : i # j => held[i].id # held[j].id

\* C17: index population is idempotent: after store_deals is called twice in a
\* row with the same corpus (the collaborator's calls succeeding), the index
\* holds exactly one record per deal of the corpus, as after the first call,
\* and get_all_deals() returns as many records as the corpus has deals.
C17_PopulationIdempotent ==
    /\ \A i \in DOMAIN calls :
           CollaboratorWorked(calls[i]) =>
               /\ calls[i].ok
               /\ HoldsExactlyCorpus(calls[i].after)
               /\ (i > 1 /\ CollaboratorWorked(calls[i - 1])) =>
                      calls[i].after = calls[i - 1].after
    /\ (/\ op = "get_all" /\ arg.get_ok /\ arg.deal_type = NoneId
        /\ calls # <<>> /\ CollaboratorWorked(calls[Len(calls)])) =>
           /\ Len(ret["ids"]) = CorpusSize
           /\ Len(ret["documents"]) = CorpusSize
           /\ Len(ret["metadatas"]) = CorpusSize

\* two calls in a row on a collection that held an earlier population, then
\* get_all_deals() returning the three records of a three-deal corpus
C17_Witness ==
    /\ op = "get_all" /\ arg.get_ok /\ arg.deal_type = NoneId
    /\ Len(calls) = 2
    /\ CollaboratorWorked(calls[1]) /\ CollaboratorWorked(calls[2])
    /\ calls[1].before = EarlierPopulation
    /\ CorpusSize = 3
    /\ Len(ret["ids"]) = 3

\* C18: store_deals is atomic for its caller: after any call on an index that
\* holds an earlier population, whether the collaborator's get, delete and add
\* calls succeed or fail, the index holds either exactly the records of the
\* earlier population or exactly the records of the new corpus: never an empty
\* index, a mix of both, or orphaned records of the earlier population.
C18_StoreAtomic ==
    \A i \in DOMAIN calls :
        calls[i].before # <<>> =>
            \/ calls[i].after = calls[i].before
            \/ /\ Range(calls[i].after) = Range(NewRecords(sample_data))
               /\ Len(calls[i].after) = CorpusSize

\* the call of the won-deal search in this run, when it has been made
SearchCalls == {i \in DOMAIN calls : calls[i].stage = "search"}

QueryFailed == \E i \in SearchCalls : ~calls[i].query_ok

\* C19: when the index collaborator's query fails, search_similar_deals
\* returns the empty result shape (one empty list of documents, of metadatas
\* and of ids) instead of raising, and the Comparative stage run on that
\* result returns a result record, its comparison context holding no won-deal
\* text.
C19_QueryFailureGivesEmptyContext ==
    QueryFailed =>
        /\ pc # "search"
        /\ main_similar_won = EmptySearchResult
        /\ prepare_won_deals_context(main_similar_won) = <<>>
        /\ "comparative" \in DOMAIN stage_path =>
               /\ stage_path["comparative"] # "raised"
               /\ main_comparative_analysis # NoneValue
               /\ DOMAIN main_comparative_analysis # {}

\* the query failed on an index that holds won deals, and the Comparative
\* stage then returned a record
C19_Witness ==
    /\ QueryFailed
    /\ Matching(collection, "won") # {}
    /\ "comparative" \in DOMAIN stage_path
    /\ stage_path["comparative"] \in {"parsed", "parse_fallback", "rule_fallback"}
    /\ main_comparative_analysis # NoneValue

\* the deals of a loaded corpus
CorpusDeals(sample) ==
    Range(Get(sample, "lost_deals", <<>>)) \cup Range(Get(sample, "won_deals", <<>>))

\* C20: loading a corpus in which some deal lacks deal_id, company or
\* timeline, or some timeline event lacks day, event or details, fails at load
\* time and yields no corpus: every corpus that has been loaded holds only
\* deals that pass validate_deal_data, and so does every deal handed to the
\* Metrics Extractor.
C20_LoadRejectsInvalidDeals ==
    /\ sample_data # NoneValue =>
           \A deal \in CorpusDeals(arg.document) : validate_deal_data(deal).ok
    /\ (op = "prepare" /\ ret # NoneValue) => validate_deal_data(ret).ok

\* the selected id is the deal_id of a lost deal of the corpus
IdKnown ==
    \E i \in DOMAIN get_all_lost_deals(sample_data) :
        get_all_lost_deals(sample_data)[i]["deal_id"] = selected_deal_id

\* C21: when the requested deal id is not the deal_id of any lost deal of the
\* corpus, get_lost_deal_by_id reports not-found, the run ends there with the
\* failure shown, and no stage is invoked and no generation call is made.
C21_UnknownIdEndsRun ==
    /\ ~IdKnown =>
           /\ pc \in {"store", "raised", "select", "idle", "lookup", "not_found"}
           /\ get_lost_deal_by_id(sample_data, selected_deal_id) = NoneValue
           /\ main_lost_deal = NoneValue
           /\ calls = <<>>
           /\ gens = EmptyDict
           /\ stage_path = EmptyDict
           /\ main_timeline_analysis = NoneValue
           /\ main_similar_won = NoneValue
           /\ main_comparative_analysis = NoneValue
           /\ main_playbook = NoneValue
    /\ pc = "not_found" => ~IdKnown /\ ~ENABLED Next

\* the analysis was requested for an id the corpus does not hold
C21_Witness ==
    /\ pc = "not_found"
    /\ ~IdKnown
    /\ get_lost_deal_by_id(sample_data, selected_deal_id) = NoneValue

\* C22: the corpus is never changed in place: after any calls of
\* get_lost_deal_by_id, extract_timeline_metrics, get_won_deals_for_comparison
\* and prepare_deal_for_analysis, sample_data holds every deal with exactly the
\* fields and values it had after loading.
C22_CorpusNeverMutated ==
    sample_data # NoneValue => sample_data = arg.document

\* the positions of the events whose details hold one of the words
DetailsHits(timeline, words) ==
    {i \in DOMAIN timeline : AnyIn(words, Lower(timeline[i].details))}

\* C23: in the Timeline rule-based fallback, failure_point is the event with
\* the latest day among those whose details contain ghost, lost, competitor or
\* no response; when no event matches it is the final event of the timeline,
\* day and event label both.
C23_FailurePointLatestMatch ==
    (op = "fallback" /\ ret.ok) =>
        LET timeline == arg.deal.timeline
            hits == DetailsHits(timeline, FailureWords)
            failure_point == ret.value.failure_point.v
        IN  IF hits # {}
            THEN \E i \in hits :
                     /\ \A j \in hits : timeline[j].day <= timeline[i].day
                     /\ failure_point.day = JNum(timeline[i].day)
                     /\ failure_point.event = JStr(timeline[i].event)
            ELSE /\ failure_point.day = JNum(timeline[Len(timeline)].day)
                 /\ failure_point.event = JStr(timeline[Len(timeline)].event)

\* the positions of the events whose label or details hold one of the words
TextHits(timeline, words) ==
    {i \in DOMAIN timeline : \/ AnyIn(words, Lower(timeline[i].event))
                             \/ AnyIn(words, Lower(timeline[i].details))}

\* C24: in the Timeline rule-based fallback, every event whose label or
\* details contain proposal, demo, meeting or pricing appears in
\* critical_moments and every event whose details contain delay, ghost,
\* concern, competitor or budget appears in warning_signals: one entry per
\* matching event, none omitted, however many events match.
C24_EveryMatchingEventFlagged ==
    (op = "fallback" /\ ret.ok) =>
        LET timeline == arg.deal.timeline
            critical_moments == ret.value.critical_moments.v
            warning_signals == ret.value.warning_signals.v
            critical == TextHits(timeline, CriticalMomentWords)
            warning == DetailsHits(timeline, WarningWords)
        IN  /\ Len(critical_moments) = Cardinality(critical)
            /\ \A i \in critical :
                   \E k \in DOMAIN critical_moments :
                       critical_moments[k] = CriticalMoment(timeline[i])
            /\ Len(warning_signals) = Cardinality(warning)
            /\ \A i \in warning :
                   \E k \in DOMAIN warning_signals :
                       warning_signals[k] = WarningSignal(timeline[i])

\* the orders in which the events of a timeline can be stored
StoredOrders(timeline) ==
    {[i \in DOMAIN timeline |-> timeline[p[i]]] :
        p \in {q \in [DOMAIN timeline -> DOMAIN timeline] :
                  \A i, j \in DOMAIN timeline : i # j => q[i] # q[j]}}

\* C25: the gap metrics do not depend on the order in which the events are
\* stored: for every permutation of a deal's events extract_timeline_metrics
\* returns the same record, and max_response_gap_days and
\* avg_response_gap_days are never negative.
C25_GapsIndependentOfStoredOrder ==
    (op = "metrics" /\ Has(arg.deal, "timeline") /\ ret # NoMetrics) =>
        /\ ret.max_response_gap_days >= 0
        /\ ret.avg_response_gap_days.num >= 0
        /\ \A stored \in StoredOrders(arg.deal.timeline) :
               extract_timeline_metrics(Put(arg.deal, "timeline", stored)) = ret

\* C26: every Timeline stage result returned by analyze_timeline, on the
\* parsed, the parse-fallback and the rule-based fallback path, has a
\* timeline_score that is an integer between 1 and 10.
C26_TimelineScoreInRange ==
    ("timeline" \in DOMAIN stage_path /\ stage_path["timeline"] # "raised") =>
        /\ Has(main_timeline_analysis, "timeline_score")
        /\ main_timeline_analysis["timeline_score"].t = "num"
        /\ main_timeline_analysis["timeline_score"].v \in 1..10

\* C27: when the Comparative stage's generation call succeeds and the lost
\* deal's timeline has at least 2 events, response_time_comparison's
\* lost_deal_avg_days in the returned record is the mean of the lost deal's
\* consecutive-day gaps, the extractor's avg_response_gap_days, whatever the
\* collaborator wrote, the parse-fallback record included.
C27_LostAvgFromLocalGaps ==
    ("comparative" \in DOMAIN gens /\ gens["comparative"].ok
        /\ Len(Get(main_lost_deal, "timeline", <<>>)) >= 2) =>
        /\ Has(main_comparative_analysis, "response_time_comparison")
        /\ main_comparative_analysis["response_time_comparison"].t = "obj"
        /\ main_comparative_analysis["response_time_comparison"].v["lost_deal_avg_days"]
               = JFloat(extract_timeline_metrics(main_lost_deal).avg_response_gap_days)

\* the record is the stage's parse-fallback record, raw_response apart
IsFallbackOf(stage, record) ==
    /\ Has(record, "raw_response")
    /\ WithoutRaw(record) = WithoutRaw(ParseFallback(stage, <<>>))

OtherSearchResults ==
    {EmptySearchResult, main_similar_won}
    \cup {search_similar_deals(EarlierPopulation, <<>>, "won", TRUE, ranking) :
             ranking \in Rankings(EarlierPopulation, "won", DefaultNResults)}

\* C30: the Comparative rule-based fallback does not depend on the comparison
\* inputs: when generation fails, the record returned for this lost deal is
\* the record returned for every lost deal with the same competitors list,
\* whatever its timeline, value and industry and whatever the search result;
\* lost_deal_avg_days is 2.5 and won_deals_avg_days is 1.2 in it.
C30_FallbackIgnoresComparisonInputs ==
    ("comparative" \in DOMAIN gens /\ ~gens["comparative"].ok) =>
        /\ stage_path["comparative"] = "rule_fallback"
        /\ main_comparative_analysis["response_time_comparison"].v["lost_deal_avg_days"]
               = JFloat(Rat(5, 2))
        /\ main_comparative_analysis["response_time_comparison"].v["won_deals_avg_days"]
               = JFloat(Rat(6, 5))
        /\ \A other \in RunLostDeals, similar \in OtherSearchResults :
               Get(other, "competitors", <<>>) = Get(main_lost_deal, "competitors", <<>>)
                   => compare_with_won_deals(other, similar, GenFail).value
                          = main_comparative_analysis

\* generation failed at the Comparative stage for a deal with three events and
\* a competitor, the search having returned a won deal
C30_Witness ==
    /\ "comparative" \in DOMAIN gens
    /\ ~gens["comparative"].ok
    /\ stage_path["comparative"] = "rule_fallback"
    /\ Len(main_lost_deal["timeline"]) = 3
    /\ Get(main_lost_deal, "competitors", <<>>) # <<>>
    /\ Len(main_similar_won["documents"][1]) >= 1

====
